---- MODULE Spec2Model ----
(***************************************************************************)
(* Verification model of the poker engine: the betting round state machine *)
(* (engine/roundstate.py), the hand evaluator (engine/evaluate.py), and    *)
(* the two drivers that feed it actions: the match orchestrator            *)
(* Game.run_round (engine/engine_log.py) with its remote players           *)
(* (engine/player.py, engine/client.py), and the gym environment           *)
(* PokerEnv (engine/gym_env.py).                                           *)
(*                                                                         *)
(* Python lists indexed 0,1 (pips, stacks, hands, deltas) are functions    *)
(* over {0, 1}; lists of cards are sequences.  A card "9s" is <<9, "s">>.  *)
(***************************************************************************)
EXTENDS Integers, Sequences, FiniteSets, TLC

\* ------------------------------------------------------------------------
\* Program constants (engine/config.py) and model bounds
\* ------------------------------------------------------------------------

\* engine/config.py sets STARTING_STACK = 400; the model scales the stack
\* down so that every raise amount of every reachable state is enumerated.
STARTING_STACK == 7
BIG_BLIND == 2
SMALL_BLIND == 1

\* STARTING_GAME_CLOCK is 300.0 seconds in engine/config.py; the model
\* counts the clock in whole ticks.
STARTING_GAME_CLOCK == 2
\* Longest duration, in ticks, that one request_action can take.
MaxDuration == 1

\* NUM_ROUNDS is 1000 in engine/config.py; the model plays this many rounds
\* of a match.
NUM_ROUNDS == 1

Players == {0, 1}

\* ------------------------------------------------------------------------
\* Generic list helpers (Python builtins)
\* ------------------------------------------------------------------------

Min(a, b) == IF a <= b THEN a ELSE b

Max(a, b) == IF a >= b THEN a ELSE b

Pow10(i) == IF i = 0 THEN 1 ELSE IF i = 1 THEN 10 ELSE IF i = 2 THEN 100 ELSE 1000

\* Inserts the pair kx = <<key, item>> into a list of pairs sorted by key,
\* after every pair with a key <= its key (so the sort is stable).
RECURSIVE InsertByKey(_, _)
InsertByKey(kx, s) ==
    IF s = << >> THEN << kx >>
    ELSE IF s[1][1] <= kx[1] THEN << s[1] >> \o InsertByKey(kx, Tail(s))
    ELSE << kx >> \o s

\* sorted(list, key=...): a stable ascending sort of <<key, item>> pairs.
RECURSIVE SortByKey(_)
SortByKey(s) ==
    IF s = << >> THEN << >>
    ELSE InsertByKey(s[Len(s)], SortByKey(SubSeq(s, 1, Len(s) - 1)))

Items(s) == [i \in 1..Len(s) |-> s[i][2]]

Reverse(s) == [i \in 1..Len(s) |-> s[Len(s) + 1 - i]]

RECURSIVE SumSeq(_)
SumSeq(s) == IF s = << >> THEN 0 ELSE s[1] + SumSeq(Tail(s))

\* ------------------------------------------------------------------------
\* Cards and the deck (engine/evaluate.py)
\* ------------------------------------------------------------------------

Ranks == 1..9

Suits == <<"s", "h", "d">>

Rank(card) == card[1]

Suit(card) == card[2]

\* ShortDeck.__init__: [f"{rank}{suit}" for rank in "123456789" for suit in "shd"]
ShortDeckCards == [i \in 1..27 |-> << ((i - 1) \div 3) + 1, Suits[((i - 1) % 3) + 1] >>]

\* Order of the two-character card strings under Python's string comparison:
\* by rank digit, then by suit letter ('d' < 'h' < 's').
StrKey(card) ==
    Rank(card) * 3 + (IF Suit(card) = "d" THEN 0 ELSE IF Suit(card) = "h" THEN 1 ELSE 2)

\* sorted(hand) on a list of card strings
SortedCards(hand) == Items(SortByKey([i \in 1..Len(hand) |-> << StrKey(hand[i]), hand[i] >>]))

\* itertools.combinations(hand, 3), as index triples
Combos3(n) ==
    UNION {UNION {{<< i, j, k >> : k \in (j + 1)..n} : j \in (i + 1)..n} : i \in 1..n}

\* itertools.combinations(hand, 2), as index pairs
Combos2(n) == UNION {{<< i, j >> : j \in (i + 1)..n} : i \in 1..n}

num_flushes(hand) ==
    Cardinality({t \in Combos3(Len(hand)) :
        /\ Suit(hand[t[1]]) = Suit(hand[t[2]])
        /\ Suit(hand[t[2]]) = Suit(hand[t[3]])})

\* ranks = sorted(int(card[0]) for card in hand); the argument is the list
\* of cards, the combinations are taken over the sorted ranks.
num_straights(hand) ==
    LET ranks == Items(SortByKey([i \in 1..Len(hand) |-> << Rank(hand[i]), Rank(hand[i]) >>]))
    IN  Cardinality({t \in Combos3(Len(ranks)) :
            /\ ranks[t[1]] = ranks[t[2]] - 1
            /\ ranks[t[2]] = ranks[t[3]] - 1})

num_pairs(hand) ==
    Cardinality({t \in Combos2(Len(hand)) : Rank(hand[t[1]]) = Rank(hand[t[2]])})

is_straight_flush(hand) == num_flushes(hand) = 4 /\ num_straights(hand) = 2

is_trips(hand) == num_pairs(hand) = 3

is_two_pair(hand) == num_pairs(hand) = 2

is_4flush(hand) == num_flushes(hand) = 4

is_straight(hand) == num_straights(hand) > 0

is_3flush(hand) == num_flushes(hand) = 1

is_pair(hand) == num_pairs(hand) = 1

high_card_value(hand) ==
    LET s == SortedCards(hand)
    IN  SumSeq([i \in 1..Len(s) |-> Rank(s[i]) * Pow10(i - 1)])

\* Variant of frequent_card_value that orders the ranks by rank alone.
frequent_card_value_by_rank(hand) ==
    LET ranks  == [i \in 1..Len(hand) |-> Rank(hand[i])]
        sorted == Items(SortByKey([i \in 1..Len(ranks) |-> << ranks[i], ranks[i] >>]))
    IN  SumSeq([i \in 1..Len(sorted) |-> sorted[i] * Pow10(i - 1)])

frequent_card_value(hand) ==
    LET ranks  == [i \in 1..Len(hand) |-> Rank(hand[i])]
        count(x) == Cardinality({i \in 1..Len(ranks) : ranks[i] = x})
        sorted == Items(SortByKey([i \in 1..Len(ranks) |->
                        << 10 * count(ranks[i]) + ranks[i], ranks[i] >>]))
    IN  SumSeq([i \in 1..Len(sorted) |-> sorted[i] * Pow10(i - 1)])

find_flush(hand) ==
    LET suit == IF Suit(hand[1]) = Suit(hand[2]) \/ Suit(hand[1]) = Suit(hand[3])
                THEN Suit(hand[1]) ELSE Suit(hand[2])
    IN  SelectSeq(hand, LAMBDA x : Suit(x) = suit)

\* Python slices clip at the end of the list: sorted(hand)[1:4], [0:3]
find_straight(hand) ==
    LET s  == SortedCards(hand)
        s1 == SubSeq(s, 2, Min(4, Len(s)))
        s2 == SubSeq(s, 1, Min(3, Len(s)))
    IN  IF num_straights(s1) > 0 THEN s1 ELSE s2

evaluate(hand, board) ==
    LET all == hand \o board
        combined_hand == Reverse(Items(SortByKey(
            Reverse([i \in 1..Len(all) |-> << Rank(all[i]), all[i] >>]))))
    IN  IF is_straight_flush(combined_hand) THEN 8000 + high_card_value(combined_hand)
        ELSE IF is_trips(combined_hand) THEN 7000 + frequent_card_value(combined_hand)
        ELSE IF is_two_pair(combined_hand) THEN 6000 + high_card_value(combined_hand)
        ELSE IF is_4flush(combined_hand) THEN 4000 + high_card_value(combined_hand)
        ELSE IF is_straight(combined_hand) THEN 3000 + high_card_value(find_straight(combined_hand))
        ELSE IF is_3flush(combined_hand) THEN 3000 + high_card_value(find_flush(combined_hand))
        ELSE IF is_pair(combined_hand) THEN 2000 + frequent_card_value(combined_hand)
        ELSE 1000 + high_card_value(combined_hand)

\* The branch of evaluate's if/elif chain that scores combined_hand.
category(combined_hand) ==
    IF is_straight_flush(combined_hand) THEN "straight flush"
    ELSE IF is_trips(combined_hand) THEN "trips"
    ELSE IF is_two_pair(combined_hand) THEN "two pair"
    ELSE IF is_4flush(combined_hand) THEN "4-flush"
    ELSE IF is_straight(combined_hand) THEN "straight"
    ELSE IF is_3flush(combined_hand) THEN "3-flush"
    ELSE IF is_pair(combined_hand) THEN "pair"
    ELSE "high card"

\* ------------------------------------------------------------------------
\* The bots' copy of the evaluator (python_skeleton/skeleton/evaluate.py);
\* is_trips, is_two_pair, is_pair, num_pairs, high_card_value and
\* frequent_card_value are the same as the referee's
\* ------------------------------------------------------------------------

\* len(set(suits)) == 1
skeleton_is_4flush(hand) == Cardinality({Suit(hand[i]) : i \in 1..Len(hand)}) = 1

\* max(ranks) - min(ranks) == 3 and len(set(ranks)) == 4
skeleton_is_4straight(hand) ==
    LET ranks == {Rank(hand[i]) : i \in 1..Len(hand)}
    IN  /\ Cardinality(ranks) = 4
        /\ \E lo \in ranks : \E hi \in ranks :
              /\ \A r \in ranks : lo <= r /\ r <= hi
              /\ hi - lo = 3

skeleton_is_straight_flush(hand) == skeleton_is_4flush(hand) /\ skeleton_is_4straight(hand)

skeleton_is_3straight(hand) ==
    LET ranks == Items(SortByKey([i \in 1..Len(hand) |-> << Rank(hand[i]), Rank(hand[i]) >>]))
    IN  \E t \in Combos3(Len(ranks)) :
            /\ ranks[t[1]] = ranks[t[2]] - 1
            /\ ranks[t[2]] = ranks[t[3]] - 1

\* s1 is the slice [1:4] and s2 the slice [0:3] of the sorted cards; the
\* test is on the three lowest ranks.
skeleton_find_straight(hand) ==
    LET s  == SortedCards(hand)
        s1 == SubSeq(s, 2, Min(4, Len(s)))
        s2 == SubSeq(s, 1, Min(3, Len(s)))
        ranks == Items(SortByKey([i \in 1..Len(hand) |-> << Rank(hand[i]), Rank(hand[i]) >>]))
    IN  IF ranks[3] - ranks[1] = 2 THEN s1 ELSE s2

skeleton_evaluate(hand, board) ==
    LET all == hand \o board
        combined_hand == Reverse(Items(SortByKey(
            Reverse([i \in 1..Len(all) |-> << Rank(all[i]), all[i] >>]))))
    IN  IF skeleton_is_straight_flush(combined_hand)
             THEN 80000 + high_card_value(combined_hand)
        ELSE IF is_trips(combined_hand) THEN 70000 + frequent_card_value(combined_hand)
        ELSE IF is_two_pair(combined_hand) THEN 60000 + high_card_value(combined_hand)
        ELSE IF skeleton_is_4flush(combined_hand) THEN 50000 + high_card_value(combined_hand)
        ELSE IF skeleton_is_4straight(combined_hand) THEN 40000 + high_card_value(combined_hand)
        ELSE IF skeleton_is_3straight(combined_hand)
             THEN 30000 + high_card_value(skeleton_find_straight(combined_hand))
        ELSE IF is_pair(combined_hand) THEN 20000 + frequent_card_value(combined_hand)
        ELSE 10000 + high_card_value(combined_hand)

\* The branch of the skeleton's if/elif chain that scores combined_hand.
skeleton_category(combined_hand) ==
    IF skeleton_is_straight_flush(combined_hand) THEN "straight flush"
    ELSE IF is_trips(combined_hand) THEN "trips"
    ELSE IF is_two_pair(combined_hand) THEN "two pair"
    ELSE IF skeleton_is_4flush(combined_hand) THEN "4-flush"
    ELSE IF skeleton_is_4straight(combined_hand) THEN "4-straight"
    ELSE IF skeleton_is_3straight(combined_hand) THEN "3-straight"
    ELSE IF is_pair(combined_hand) THEN "pair"
    ELSE "high card"

\* ------------------------------------------------------------------------
\* Actions (engine/actions.py)
\* ------------------------------------------------------------------------

FoldAction == [type |-> "FoldAction"]

CallAction == [type |-> "CallAction"]

CheckAction == [type |-> "CheckAction"]

RaiseAction(amount) == [type |-> "RaiseAction", amount |-> amount]

\* Python's None, returned by request_action when the RPC fails or the
\* response decodes to no action.
None == [type |-> "NoneType", kind |-> "NoneType"]

TerminalState(deltas, previous_state) ==
    [kind |-> "TerminalState", deltas |-> deltas, previous_state |-> previous_state]

\* The RoundState namedtuple.  The board list and the deck object are shared
\* by reference between all the states of a round, so the model keeps them
\* as the separate variables board and deck.
RoundState(button, street, pips, stacks, hands) ==
    [kind |-> "RoundState", button |-> button, street |-> street,
     pips |-> pips, stacks |-> stacks, hands |-> hands]

Pair(a, b) == (0 :> a) @@ (1 :> b)

\* ------------------------------------------------------------------------
\* RoundState (engine/roundstate.py)
\* ------------------------------------------------------------------------

\* Python's round() of the quotient n / d (n >= 0, d > 0): to the nearest
\* integer, an exact half to the even neighbour.
Round(n, d) ==
    LET q == n \div d
        r == n % d
    IN  IF 2 * r < d THEN q
        ELSE IF 2 * r > d THEN q + 1
        ELSE IF q % 2 = 0 THEN q ELSE q + 1

\* Variant of the equity chop that gives player 0 nothing for a tied
\* completion.
EquityDelta_no_ties(self, b, cards) ==
    LET n == Len(cards)
        combos == IF Len(b) = 1 THEN {<< i >> : i \in 1..n} ELSE Combos2(n)
        outcome(t) ==
            LET full == b \o [i \in 1..Len(t) |-> cards[t[i]]]
                score0 == evaluate(self.hands[0], full)
                score1 == evaluate(self.hands[1], full)
            IN  IF score0 > score1 THEN 2 ELSE IF score0 = score1 THEN 1 ELSE 0
        outcomes == {<< t, outcome(t) >> : t \in combos}
        p0Eq == 2 * Cardinality({r \in outcomes : r[2] = 2})
        comb == 2 * Cardinality(combos)
    IN  Round(2 * STARTING_STACK * p0Eq, comb) - STARTING_STACK

\* The equity-chop branch of showdown: every completion of the board from
\* the cards left in the deck.
EquityDelta(self, b, cards) ==
    LET n == Len(cards)
        combos == IF Len(b) = 1 THEN {<< i >> : i \in 1..n} ELSE Combos2(n)
        outcome(t) ==
            LET full == b \o [i \in 1..Len(t) |-> cards[t[i]]]
                score0 == evaluate(self.hands[0], full)
                score1 == evaluate(self.hands[1], full)
            IN  IF score0 > score1 THEN 2 ELSE IF score0 = score1 THEN 1 ELSE 0
        outcomes == {<< t, outcome(t) >> : t \in combos}
        p0Eq == 2 * Cardinality({r \in outcomes : r[2] = 2})
                + Cardinality({r \in outcomes : r[2] = 1})
        comb == 2 * Cardinality(combos)
    IN  Round(2 * STARTING_STACK * p0Eq, comb) - STARTING_STACK

\* Variant of the split that rounds the half difference up.
TieDelta_ceiling(self) == 0 - ((self.stacks[1] - self.stacks[0]) \div 2)

\* The split of a tied showdown.  Python's // floors, TLA+'s \div floors
\* as well.
TieDelta(self) == (self.stacks[0] - self.stacks[1]) \div 2

\* Variant of the showdown delta that pays a winning player 0 from its own
\* stack's complement.
ShowdownDelta_winner_stack(self, b, cards) ==
    IF Len(b) < 2 THEN EquityDelta(self, b, cards)
    ELSE LET score0 == evaluate(self.hands[0], b)
             score1 == evaluate(self.hands[1], b)
         IN  IF score0 > score1 THEN STARTING_STACK - self.stacks[0]
             ELSE IF score0 < score1 THEN self.stacks[0] - STARTING_STACK
             ELSE TieDelta(self)

ShowdownDelta(self, b, cards) ==
    IF Len(b) < 2 THEN EquityDelta(self, b, cards)
    ELSE LET score0 == evaluate(self.hands[0], b)
             score1 == evaluate(self.hands[1], b)
         IN  IF score0 > score1 THEN STARTING_STACK - self.stacks[1]
             ELSE IF score0 < score1 THEN self.stacks[0] - STARTING_STACK
             ELSE TieDelta(self)

\* Variant of showdown that books player 1's delta as that player's own loss.
showdown_own_loss(self, b, cards) ==
    LET delta == ShowdownDelta(self, b, cards)
    IN  TerminalState(Pair(delta, self.stacks[1] - STARTING_STACK), self)

showdown(self, b, cards) ==
    LET delta == ShowdownDelta(self, b, cards)
    IN  TerminalState(Pair(delta, -delta), self)

\* Variant of legal_actions that offers nothing to a player facing a bet
\* that cannot be raised.
legal_actions_no_raise_room(self) ==
    LET active == self.button % 2
        continue_cost == self.pips[1 - active] - self.pips[active]
        bets_forbidden == self.stacks[0] = 0 \/ self.stacks[1] = 0
        raises_forbidden ==
            continue_cost >= self.stacks[active] \/ self.stacks[1 - active] = 0
    IN  IF continue_cost = 0
        THEN (IF bets_forbidden THEN {"CheckAction"} ELSE {"CheckAction", "RaiseAction"})
        ELSE (IF raises_forbidden THEN {}
              ELSE {"FoldAction", "CallAction", "RaiseAction"})

\* Variant of legal_actions that lets a player fold when there is nothing
\* to call.
legal_actions_fold_anytime(self) ==
    LET active == self.button % 2
        continue_cost == self.pips[1 - active] - self.pips[active]
        bets_forbidden == self.stacks[0] = 0 \/ self.stacks[1] = 0
        raises_forbidden ==
            continue_cost >= self.stacks[active] \/ self.stacks[1 - active] = 0
    IN  IF continue_cost = 0
        THEN (IF bets_forbidden THEN {"CheckAction", "FoldAction"}
              ELSE {"CheckAction", "FoldAction", "RaiseAction"})
        ELSE (IF raises_forbidden THEN {"FoldAction", "CallAction"}
              ELSE {"FoldAction", "CallAction", "RaiseAction"})

legal_actions(self) ==
    LET active == self.button % 2
        continue_cost == self.pips[1 - active] - self.pips[active]
        bets_forbidden == self.stacks[0] = 0 \/ self.stacks[1] = 0
        raises_forbidden ==
            continue_cost >= self.stacks[active] \/ self.stacks[1 - active] = 0
    IN  IF continue_cost = 0
        THEN (IF bets_forbidden THEN {"CheckAction"} ELSE {"CheckAction", "RaiseAction"})
        ELSE (IF raises_forbidden THEN {"FoldAction", "CallAction"}
              ELSE {"FoldAction", "CallAction", "RaiseAction"})

\* Variant of raise_bounds whose minimum is not capped by the maximum.
raise_bounds_uncapped_min(self) ==
    LET active == self.button % 2
        continue_cost == self.pips[1 - active] - self.pips[active]
        max_contribution == Min(self.stacks[active], self.stacks[1 - active] + continue_cost)
        min_contribution == continue_cost + Max(continue_cost, BIG_BLIND)
    IN  << self.pips[active] + min_contribution, self.pips[active] + max_contribution >>

\* Variant of raise_bounds whose maximum adds the call amount to the
\* raiser's own stack.
raise_bounds_overcommit(self) ==
    LET active == self.button % 2
        continue_cost == self.pips[1 - active] - self.pips[active]
        max_contribution == self.stacks[active] + continue_cost
        min_contribution == Min(max_contribution, continue_cost + Max(continue_cost, BIG_BLIND))
    IN  << self.pips[active] + min_contribution, self.pips[active] + max_contribution >>

\* Variant of raise_bounds whose minimum tops the call by one big blind
\* whatever the size of the raise being answered.
raise_bounds_big_blind_step(self) ==
    LET active == self.button % 2
        continue_cost == self.pips[1 - active] - self.pips[active]
        max_contribution == Min(self.stacks[active], self.stacks[1 - active] + continue_cost)
        min_contribution == Min(max_contribution, continue_cost + BIG_BLIND)
    IN  << self.pips[active] + min_contribution, self.pips[active] + max_contribution >>

\* Variant of raise_bounds whose minimum only matches the bet being
\* answered.
raise_bounds_match_only(self) ==
    LET active == self.button % 2
        continue_cost == self.pips[1 - active] - self.pips[active]
        max_contribution == Min(self.stacks[active], self.stacks[1 - active] + continue_cost)
        min_contribution == Min(max_contribution, continue_cost)
    IN  << self.pips[active] + min_contribution, self.pips[active] + max_contribution >>

raise_bounds(self) ==
    LET active == self.button % 2
        continue_cost == self.pips[1 - active] - self.pips[active]
        max_contribution == Min(self.stacks[active], self.stacks[1 - active] + continue_cost)
        min_contribution == Min(max_contribution, continue_cost + Max(continue_cost, BIG_BLIND))
    IN  << self.pips[active] + min_contribution, self.pips[active] + max_contribution >>

\* The result of a transition: the state returned, and the contents of the
\* shared board list and deck after the call.
Result(state, b, cards) == [state |-> state, board |-> b, deck |-> cards]

\* Variant of proceed_street that hands the first decision of the new
\* street to player 0.
proceed_street_small_blind_first(self, b, cards) ==
    IF self.street >= 2 \/ self.stacks[0] + self.stacks[1] = 0
    THEN Result(showdown(self, b, cards), b, cards)
    ELSE LET new_street == self.street + 1
             dealt == new_street \in {1, 2}
             b2 == IF dealt THEN Append(b, cards[Len(cards)]) ELSE b
             c2 == IF dealt THEN SubSeq(cards, 1, Len(cards) - 1) ELSE cards
         IN  Result(RoundState(0, new_street, Pair(0, 0), self.stacks, self.hands), b2, c2)

\* Variant of proceed_street that goes to showdown once a stack is down to
\* the big blind or less.
proceed_street_early_showdown(self, b, cards) ==
    IF self.street >= 2 \/ self.stacks[0] + self.stacks[1] <= 2 * BIG_BLIND
    THEN Result(showdown(self, b, cards), b, cards)
    ELSE LET new_street == self.street + 1
             dealt == new_street \in {1, 2}
             b2 == IF dealt THEN Append(b, cards[Len(cards)]) ELSE b
             c2 == IF dealt THEN SubSeq(cards, 1, Len(cards) - 1) ELSE cards
         IN  Result(RoundState(1, new_street, Pair(0, 0), self.stacks, self.hands), b2, c2)

\* Variant of proceed_street that burns a card of the deck before an
\* all-in showdown.
proceed_street_burn_card(self, b, cards) ==
    IF self.street >= 2 \/ self.stacks[0] + self.stacks[1] = 0
    THEN Result(showdown(self, b, cards), b,
                IF Len(b) < 2 THEN SubSeq(cards, 1, Len(cards) - 1) ELSE cards)
    ELSE LET new_street == self.street + 1
             dealt == new_street \in {1, 2}
             b2 == IF dealt THEN Append(b, cards[Len(cards)]) ELSE b
             c2 == IF dealt THEN SubSeq(cards, 1, Len(cards) - 1) ELSE cards
         IN  Result(RoundState(1, new_street, Pair(0, 0), self.stacks, self.hands), b2, c2)

proceed_street(self, b, cards) ==
    IF self.street >= 2 \/ self.stacks[0] + self.stacks[1] = 0
    THEN Result(showdown(self, b, cards), b, cards)
    ELSE LET new_street == self.street + 1
             \* self.board.extend(self.deck.deal(1)): deal pops the last card
             dealt == new_street \in {1, 2}
             b2 == IF dealt THEN Append(b, cards[Len(cards)]) ELSE b
             c2 == IF dealt THEN SubSeq(cards, 1, Len(cards) - 1) ELSE cards
         IN  Result(RoundState(1, new_street, Pair(0, 0), self.stacks, self.hands), b2, c2)

\* Variant of the fold delta that takes the folder to be player 0 whoever
\* is active.
FoldDelta_first_player(self) == self.stacks[0] - STARTING_STACK

\* Variant of the fold delta that charges the folder the chips the
\* opponent has put in.
FoldDelta_opponent_commitment(self) ==
    IF self.button % 2 = 0 THEN self.stacks[1] - STARTING_STACK
    ELSE STARTING_STACK - self.stacks[0]

FoldDelta(self) ==
    IF self.button % 2 = 0 THEN self.stacks[0] - STARTING_STACK
    ELSE STARTING_STACK - self.stacks[1]

\* Variant of CallState that moves the chips into the pip without taking
\* them from the stack.
CallState_no_debit(self) ==
    LET active == self.button % 2
        contribution == self.pips[1 - active] - self.pips[active]
        new_pips == [self.pips EXCEPT ![active] = @ + contribution]
    IN  RoundState(self.button + 1, self.street, new_pips, self.stacks, self.hands)

\* Variant of CallState that takes the call out of the caller's stack
\* twice.
CallState_double_debit(self) ==
    LET active == self.button % 2
        contribution == self.pips[1 - active] - self.pips[active]
        new_stacks == [self.stacks EXCEPT ![active] = @ - 2 * contribution]
        new_pips == [self.pips EXCEPT ![active] = @ + contribution]
    IN  RoundState(self.button + 1, self.street, new_pips, new_stacks, self.hands)

\* The state a Call (other than the small blind's first call) builds before
\* it closes the street.
CallState(self) ==
    LET active == self.button % 2
        contribution == self.pips[1 - active] - self.pips[active]
        new_stacks == [self.stacks EXCEPT ![active] = @ - contribution]
        new_pips == [self.pips EXCEPT ![active] = @ + contribution]
    IN  RoundState(self.button + 1, self.street, new_pips, new_stacks, self.hands)

\* Variant of the Call branch without the case of the small blind's first
\* call.
ProceedCall_no_blind_case(self, b, cards) == proceed_street(CallState(self), b, cards)

ProceedCall(self, b, cards) ==
    IF self.button = 0
    THEN Result(RoundState(1, 0, Pair(BIG_BLIND, BIG_BLIND),
                    Pair(STARTING_STACK - BIG_BLIND, STARTING_STACK - BIG_BLIND),
                    self.hands), b, cards)
    ELSE proceed_street(CallState(self), b, cards)

\* Variant of the closing-check test without the preflop case.
CheckClosesStreet_postflop_only(self) == self.button > 1

CheckClosesStreet(self) == (self.street = 0 /\ self.button > 0) \/ self.button > 1

\* Variant of the Check branch in which every check closes the street.
ProceedCheck_always_closes(self, b, cards) == proceed_street(self, b, cards)

\* Variant of the Check branch in which a check that leaves the street
\* open moves the button on by two.
ProceedCheck_double_step(self, b, cards) ==
    IF CheckClosesStreet(self)
    THEN proceed_street(self, b, cards)
    ELSE Result(RoundState(self.button + 2, self.street, self.pips, self.stacks, self.hands),
                b, cards)

ProceedCheck(self, b, cards) ==
    IF CheckClosesStreet(self)
    THEN proceed_street(self, b, cards)
    ELSE Result(RoundState(self.button + 1, self.street, self.pips, self.stacks, self.hands),
                b, cards)

\* Variant of the Raise branch that leaves the raiser's stack as it was.
ProceedRaise_no_debit(self, amount, b, cards) ==
    LET active == self.button % 2
        contribution == amount - self.pips[active]
        new_pips == [self.pips EXCEPT ![active] = @ + contribution]
    IN  Result(RoundState(self.button + 1, self.street, new_pips, self.stacks, self.hands),
               b, cards)

\* Variant of the Raise branch that leaves the button where it was.
ProceedRaise_same_button(self, amount, b, cards) ==
    LET active == self.button % 2
        contribution == amount - self.pips[active]
        new_stacks == [self.stacks EXCEPT ![active] = @ - contribution]
        new_pips == [self.pips EXCEPT ![active] = @ + contribution]
    IN  Result(RoundState(self.button, self.street, new_pips, new_stacks, self.hands),
               b, cards)

ProceedRaise(self, amount, b, cards) ==
    LET active == self.button % 2
        contribution == amount - self.pips[active]
        new_stacks == [self.stacks EXCEPT ![active] = @ - contribution]
        new_pips == [self.pips EXCEPT ![active] = @ + contribution]
    IN  Result(RoundState(self.button + 1, self.street, new_pips, new_stacks, self.hands),
               b, cards)

\* proceed falls off its if/elif chain for anything that is not one of the
\* four action types and then returns Python's None.
proceed(self, action, b, cards) ==
    IF action.type = "FoldAction"
    THEN LET delta == FoldDelta(self)
         IN  Result(TerminalState(Pair(delta, -delta), self), b, cards)
    ELSE IF action.type = "CallAction" THEN ProceedCall(self, b, cards)
    ELSE IF action.type = "CheckAction" THEN ProceedCheck(self, b, cards)
    ELSE IF action.type = "RaiseAction" THEN ProceedRaise(self, action.amount, b, cards)
    ELSE Result(None, b, cards)

\* ------------------------------------------------------------------------
\* The bots' RoundState (python_skeleton/skeleton/states.py).  It has no
\* deck; its board is a field the Runner replaces from every request, which
\* the model leaves out.
\* ------------------------------------------------------------------------

skeleton_showdown(self) == TerminalState(Pair(0, 0), self)

skeleton_legal_actions(self) ==
    LET active == self.button % 2
        continue_cost == self.pips[1 - active] - self.pips[active]
        bets_forbidden == self.stacks[0] = 0 \/ self.stacks[1] = 0
        raises_forbidden ==
            continue_cost >= self.stacks[active] \/ self.stacks[1 - active] = 0
    IN  IF continue_cost = 0
        THEN (IF bets_forbidden THEN {"CheckAction"} ELSE {"CheckAction", "RaiseAction"})
        ELSE (IF raises_forbidden THEN {"FoldAction", "CallAction"}
              ELSE {"FoldAction", "CallAction", "RaiseAction"})

skeleton_raise_bounds(self) ==
    LET active == self.button % 2
        continue_cost == self.pips[1 - active] - self.pips[active]
        max_contribution == Min(self.stacks[active], self.stacks[1 - active] + continue_cost)
        min_contribution == Min(max_contribution, continue_cost + Max(continue_cost, BIG_BLIND))
    IN  << self.pips[active] + min_contribution, self.pips[active] + max_contribution >>

\* Variant of the skeleton's proceed_street that leaves the button to run
\* on from the closed street.
skeleton_proceed_street_button_runs_on(self) ==
    IF self.street >= 2 THEN skeleton_showdown(self)
    ELSE RoundState(self.button, self.street + 1, Pair(0, 0), self.stacks, self.hands)

\* The skeleton goes to showdown after the river only: it has no test for
\* two empty stacks.
skeleton_proceed_street(self) ==
    IF self.street >= 2 THEN skeleton_showdown(self)
    ELSE RoundState(1, self.street + 1, Pair(0, 0), self.stacks, self.hands)

skeleton_proceed(self, action) ==
    LET active == self.button % 2
    IN  IF action.type = "FoldAction"
        THEN LET delta == IF active = 0 THEN self.stacks[0] - STARTING_STACK
                          ELSE STARTING_STACK - self.stacks[1]
             IN  TerminalState(Pair(delta, -delta), self)
        ELSE IF action.type = "CallAction"
        THEN IF self.button = 0
             THEN RoundState(1, 0, Pair(BIG_BLIND, BIG_BLIND),
                      Pair(STARTING_STACK - BIG_BLIND, STARTING_STACK - BIG_BLIND), self.hands)
             ELSE LET contribution == self.pips[1 - active] - self.pips[active]
                      new_stacks == [self.stacks EXCEPT ![active] = @ - contribution]
                      new_pips == [self.pips EXCEPT ![active] = @ + contribution]
                  IN  skeleton_proceed_street(
                          RoundState(self.button + 1, self.street, new_pips, new_stacks,
                                     self.hands))
        ELSE IF action.type = "CheckAction"
        THEN IF (self.street = 0 /\ self.button > 0) \/ self.button > 1
             THEN skeleton_proceed_street(self)
             ELSE RoundState(self.button + 1, self.street, self.pips, self.stacks, self.hands)
        ELSE IF action.type = "RaiseAction"
        THEN LET contribution == action.amount - self.pips[active]
                 new_stacks == [self.stacks EXCEPT ![active] = @ - contribution]
                 new_pips == [self.pips EXCEPT ![active] = @ + contribution]
             IN  RoundState(self.button + 1, self.street, new_pips, new_stacks, self.hands)
        ELSE None

\* Runner._new_round (python_skeleton/skeleton/runner.py): the blinds, the
\* bot's own hand and an empty hand for the opponent.
Runner_new_round(hand) ==
    RoundState(0, 0, Pair(SMALL_BLIND, BIG_BLIND),
               Pair(STARTING_STACK - SMALL_BLIND, STARTING_STACK - BIG_BLIND),
               Pair(hand, << >>))

\* The Runner's "self.round_state = self.round_state.proceed(action)" for an
\* action the referee applied.
Runner_proceed(state, action) ==
    IF state.kind = "RoundState" THEN skeleton_proceed(state, action) ELSE state

\* ------------------------------------------------------------------------
\* Validation of a submitted action
\* ------------------------------------------------------------------------

\* "CheckAction() if CheckAction in legal_actions else FoldAction()"
DefaultAction(legal) == IF "CheckAction" \in legal THEN CheckAction ELSE FoldAction

\* Variant of the raise test that does not look at the bounds.
RaiseIsValid_no_bounds(action, round_state) ==
    "RaiseAction" \in legal_actions(round_state)

RaiseIsValid(action, round_state) ==
    LET bounds == raise_bounds(round_state)
    IN  /\ "RaiseAction" \in legal_actions(round_state)
        /\ bounds[1] <= action.amount
        /\ action.amount <= bounds[2]

\* Game._validate_action (engine/engine_log.py): the branch for a
\* non-raise action only logs an illegal one; every non-raise action then
\* reaches the default at the end of the function.
Game_validate_action(action, round_state) ==
    LET legal == legal_actions(round_state)
    IN  IF action.type = "RaiseAction" /\ RaiseIsValid(action, round_state)
        THEN action
        ELSE DefaultAction(legal)

\* PokerEnv._validate_action (engine/gym_env.py)
PokerEnv_validate_action(action, round_state) ==
    LET legal == legal_actions(round_state)
    IN  IF action.type = "RaiseAction"
        THEN (IF RaiseIsValid(action, round_state) THEN action ELSE DefaultAction(legal))
        ELSE IF action.type \in legal THEN action
        ELSE DefaultAction(legal)

\* ------------------------------------------------------------------------
\* The shuffled deck
\* ------------------------------------------------------------------------

\* The outcomes of deck.shuffle() the model explores: each draw lists the
\* six cards in the order in which deal() will pop them; the rest of the
\* deck stays in its construction order below them.
Draws ==
    { << <<9, "s">>, <<9, "h">>, <<1, "s">>, <<2, "d">>, <<5, "d">>, <<7, "h">> >>,
      << <<1, "s">>, <<3, "h">>, <<8, "d">>, <<8, "h">>, <<4, "s">>, <<6, "d">> >>,
      << <<4, "s">>, <<6, "s">>, <<4, "h">>, <<6, "h">>, <<1, "d">>, <<2, "d">> >>,
      << <<7, "d">>, <<2, "h">>, <<3, "s">>, <<5, "d">>, <<9, "s">>, <<1, "h">> >> }

InSeq(x, s) == \E i \in 1..Len(s) : s[i] = x

Shuffled(draw) ==
    SelectSeq(ShortDeckCards, LAMBDA c : ~InSeq(c, draw)) \o Reverse(draw)

\* deck.deal(n): [self.cards.pop() for _ in range(n)]
Deal(cards, n) == [i \in 1..n |-> cards[Len(cards) + 1 - i]]

AfterDeal(cards, n) == SubSeq(cards, 1, Len(cards) - n)

\* ------------------------------------------------------------------------
\* The remote player (engine/player.py; engine/client.py has the same
\* request_action and _convert_proto_to_action)
\* ------------------------------------------------------------------------

\* engine/config.py: the game clock is enforced.
ENFORCE_GAME_CLOCK == TRUE

\* Raise amounts a player may submit: from below every minimum to above
\* every maximum.
Amounts == (0 - 1)..(STARTING_STACK + 1)

\* The Action messages a remote agent can answer with; "UNRECOGNISED" is
\* any value of the action field that is none of the four ActionTypes.
ProtoActions ==
    {[action |-> t, amount |-> 0] : t \in {"FOLD", "CALL", "CHECK", "UNRECOGNISED"}}
    \cup {[action |-> "RAISE", amount |-> a] : a \in Amounts}

\* What stub.RequestAction does: it raises grpc.RpcError (transport
\* failure, deadline exceeded) or returns a response.
Responses ==
    {[status |-> "RpcError"]} \cup {[status |-> "ok", action |-> pa] : pa \in ProtoActions}

Durations == 0..MaxDuration

\* Variant of the conversion that takes an unrecognised action type for a
\* Fold.
convert_proto_to_action_default_fold(proto_action) ==
    IF proto_action.action = "FOLD" THEN FoldAction
    ELSE IF proto_action.action = "CALL" THEN CallAction
    ELSE IF proto_action.action = "CHECK" THEN CheckAction
    ELSE IF proto_action.action = "RAISE" THEN RaiseAction(proto_action.amount)
    ELSE FoldAction

\* _convert_proto_to_action
convert_proto_to_action(proto_action) ==
    IF proto_action.action = "FOLD" THEN FoldAction
    ELSE IF proto_action.action = "CALL" THEN CallAction
    ELSE IF proto_action.action = "CHECK" THEN CheckAction
    ELSE IF proto_action.action = "RAISE" THEN RaiseAction(proto_action.amount)
    ELSE None

\* _convert_action_to_proto
convert_action_to_proto(action) ==
    IF action.type = "FoldAction" THEN [action |-> "FOLD", amount |-> 0]
    ELSE IF action.type = "CallAction" THEN [action |-> "CALL", amount |-> 0]
    ELSE IF action.type = "CheckAction" THEN [action |-> "CHECK", amount |-> 0]
    ELSE IF action.type = "RaiseAction" THEN [action |-> "RAISE", amount |-> action.amount]
    ELSE None

\* _convert_actions_to_proto: the messages for the actions popped from the
\* deque, in order ("if proto_action" leaves out what did not convert); the
\* deque is empty afterwards.
convert_actions_to_proto(actions) ==
    SelectSeq([k \in 1..Len(actions) |-> convert_action_to_proto(actions[k])],
              LAMBDA proto_action : proto_action # None)

\* Variant of request_action that charges the clock only when the RPC
\* returned a response.
request_action_success_charged(p, clock, response, duration) ==
    LET action == IF response.status = "RpcError" THEN None
                  ELSE convert_proto_to_action(response.action)
        game_clock_after == IF ENFORCE_GAME_CLOCK /\ response.status # "RpcError"
                            THEN clock - duration ELSE clock
    IN  [kind |-> "request_action", player |-> p, clock_before |-> clock,
         sent |-> TRUE, response |-> response, duration |-> duration,
         game_clock |-> game_clock_after, raised |-> game_clock_after <= 0,
         action |-> action]

\* request_action of player p whose clock stands at clock, when the RPC
\* takes duration and ends in response.  The RPC is issued first; the
\* clock is charged and tested after it.  raised: TimeoutError leaves the
\* call; otherwise action is the value returned.
request_action(p, clock, response, duration) ==
    LET action == IF response.status = "RpcError" THEN None
                  ELSE convert_proto_to_action(response.action)
        game_clock_after == IF ENFORCE_GAME_CLOCK THEN clock - duration ELSE clock
    IN  [kind |-> "request_action", player |-> p, clock_before |-> clock,
         sent |-> TRUE, response |-> response, duration |-> duration,
         game_clock |-> game_clock_after, raised |-> game_clock_after <= 0,
         action |-> action]

\* Player.check_ready: max_retries defaults to 5.
max_retries == 5

\* engine/config.py: attempts of the ready check of Client.check_ready
READY_CHECK_RETRIES == 1

\* What one ReadyCheck RPC does: response.ready is True or False, or
\* grpc.RpcError is raised (failure, timeout).
ReadyOutcomes == {"ready", "not_ready", "RpcError"}

\* What the RPCs of one check_ready do, in order, should that many be made.
ReadyScripts(n) == [1..n -> ReadyOutcomes]

RECURSIVE ReadyLoop(_, _)
\* The loop of Player.check_ready from attempt number attempt on (counted
\* from 1); outcomes[k] is what the k-th RPC does.
ReadyLoop(outcomes, attempt) ==
    IF attempt > max_retries THEN [result |-> FALSE, attempts |-> max_retries]
    ELSE IF outcomes[attempt] = "ready" THEN [result |-> TRUE, attempts |-> attempt]
    ELSE ReadyLoop(outcomes, attempt + 1)

\* Variant of Player.check_ready that takes any response to the last
\* attempt for readiness.
Player_check_ready_any_response(p, outcomes) ==
    LET r == ReadyLoop(outcomes, 1)
    IN  [kind |-> "check_ready", class |-> "Player", player |-> p,
         made |-> SubSeq(outcomes, 1, r.attempts),
         configured |-> max_retries, attempts |-> r.attempts,
         result |-> (r.result \/ outcomes[max_retries] = "not_ready"),
         raised |-> FALSE]

\* made: what the RPCs that were issued did.  grpc.RpcError is caught, so
\* nothing is raised.
Player_check_ready(p, outcomes) ==
    LET r == ReadyLoop(outcomes, 1)
    IN  [kind |-> "check_ready", class |-> "Player", player |-> p,
         made |-> SubSeq(outcomes, 1, r.attempts),
         configured |-> max_retries, attempts |-> r.attempts, result |-> r.result,
         raised |-> FALSE]

\* Client.check_ready: one stub.ReadyCheck on a channel configured for
\* READY_CHECK_RETRIES attempts; grpc.RpcError is caught and gives False.
Client_check_ready(p, outcomes) ==
    [kind |-> "check_ready", class |-> "Client", player |-> p,
     made |-> SubSeq(outcomes, 1, 1),
     configured |-> READY_CHECK_RETRIES, attempts |-> 1,
     result |-> (outcomes[1] = "ready"), raised |-> FALSE]

\* engine/config.py: the byte budget of a player's log, scaled.
PLAYER_LOG_SIZE_LIMIT == 3

\* A log entry of size bytes (in UTF-8) returned by the agent, and the
\* entry "Log size limit reached. No further entries will be added."
LogEntry(size) == [text |-> "entry", size |-> size]

LimitReachedEntry == [text |-> "Log size limit reached", size |-> 58]

\* The for loop of Client.end_round over new_logs from entry i on; st holds
\* self.log and self.log_size, and whether the else branch was taken.
RECURSIVE EndRoundLoop(_, _, _)
EndRoundLoop(st, new_logs, i) ==
    IF i > Len(new_logs) THEN st
    ELSE LET entry_size == new_logs[i].size
         IN  IF st.log_size + entry_size <= PLAYER_LOG_SIZE_LIMIT
             THEN EndRoundLoop([st EXCEPT !.log = Append(@, new_logs[i]),
                                          !.log_size = @ + entry_size],
                               new_logs, i + 1)
             ELSE \* break
                  IF st.log_size < PLAYER_LOG_SIZE_LIMIT
                  THEN [log |-> Append(st.log, LimitReachedEntry),
                        log_size |-> PLAYER_LOG_SIZE_LIMIT, dropped |-> TRUE]
                  ELSE [st EXCEPT !.dropped = TRUE]

\* Client.end_round when stub.EndRound ends in response: grpc.RpcError is
\* caught and leaves the log alone.
Client_end_round(st, response) ==
    IF response.status = "RpcError" THEN st
    ELSE EndRoundLoop(st, response.logs, 1)

\* ------------------------------------------------------------------------
\* State
\* ------------------------------------------------------------------------

VARIABLES
    driver,       \* "Game" (engine_log.py) or "PokerEnv" (gym_env.py)
    pc,           \* position of the driver
    round_state,  \* the driver's current RoundState / TerminalState, or None
    board,        \* contents of the board list shared by the round's states
    deck,         \* deck.cards of the round's ShortDeck
    game_clock,   \* Player.game_clock of the two players (Game)
    bankroll,     \* Player.bankroll (Game), PokerEnv.bankrolls
    round_num,    \* round_num of run_match, PokerEnv.curr_round_num
    submitted,    \* what request_action returned / what step was given
    validated,    \* the action _validate_action returned for it
    before,       \* the RoundState proceed was last called on
    produced,     \* what that call of proceed returned
    committed,    \* chips each player put in on the closed streets of the round
    nproceed,     \* calls of proceed in the round of the last call
    nterminal,    \* TerminalStates those calls returned
    notified,     \* players whose end_round was called for the round
    before_board, \* contents of the board list when proceed was last called
    before_deck,  \* contents of deck.cards when proceed was last called
    after_board,  \* contents of the board list when that call returned
    after_deck,   \* contents of deck.cards when that call returned
    request,      \* the last call of request_action, or None
    ready_call,   \* the last call of check_ready, or None
    log,          \* self.log of a Client: the entries stored so far
    log_size,     \* self.log_size of that Client
    dropped,      \* an entry was refused for exceeding the budget
    skeleton_score,  \* the score the skeleton copy of evaluate returned for them
    bot_state,  \* the RoundState a Runner holds after the same actions
    ready,  \* what check_ready returned to run_match for each player
    new_actions,  \* Game.new_actions: the deque of actions pending for each player
    since,  \* the actions applied since each player was last sent a request
    delivered,  \* the messages of the last step of run_round, with their new_actions
    combined,     \* the cards (hand + board) evaluate was last applied to
    score,        \* the score evaluate returned for them
    ranges        \* reference: the range of evaluate's scores over all hands
                  \* of the deck, by category and by paired rank

vars == << delivered, since, new_actions, ready, bot_state, skeleton_score, driver, pc, round_state, board, deck, game_clock, bankroll, round_num,
           submitted, validated, before, produced, committed, nproceed, nterminal,
           notified, before_board, before_deck, after_board, after_deck,
           request, ready_call, log, log_size, dropped, combined, score,
           ranges >>

\* The variables only proceed writes to, and the ones only the remote
\* player's methods write to.
proceed_vars == << before_board, before_deck, after_board, after_deck >>

player_vars == << request, ready_call >>

\* The variables only Client.end_round writes to.
log_vars == << log, log_size, dropped >>

\* The variables only a direct call of evaluate writes to.
eval_vars == << skeleton_score, combined, score, ranges >>

\* The variable only the drivers' rounds write to, on the bot's side.
runner_vars == << bot_state >>

\* The variable only run_match's readiness checks write to.
gate_vars == << ready >>

\* self.new_actions = [deque(), deque()]
NoActions == Pair(<< >>, << >>)

\* No check_ready has been called.
NotReadyYet == Pair("not_called", "not_called")

\* The variables only the messages of run_round write to.
delivery_vars == << delivered, since, new_actions >>

Submittable == {FoldAction, CallAction, CheckAction} \cup {RaiseAction(a) : a \in Amounts}

Init ==
    /\ driver \in {"Game", "PokerEnv"}
    /\ pc = IF driver = "Game" THEN "check_ready" ELSE "init"
    /\ round_state = None
    /\ board = << >>
    /\ deck = << >>
    /\ game_clock = Pair(STARTING_GAME_CLOCK, STARTING_GAME_CLOCK)
    /\ bankroll = Pair(0, 0)
    /\ round_num = 1
    /\ submitted = None
    /\ validated = None
    /\ before = None
    /\ produced = None
    /\ committed = Pair(0, 0)
    /\ nproceed = 0
    /\ nterminal = 0
    /\ notified = {}
    /\ before_board = << >>
    /\ before_deck = << >>
    /\ after_board = << >>
    /\ after_deck = << >>
    /\ request = None
    /\ ready_call = None
    /\ log = << >>
    /\ log_size = 0
    /\ dropped = FALSE
    /\ combined = << >>
    /\ score = 0
    /\ delivered = << >>
    /\ since = NoActions
    /\ new_actions = NoActions
    /\ ready = NotReadyYet
    /\ bot_state = None
    /\ skeleton_score = 0
    /\ ranges = None

\* Variant of the first RoundState in which only the small blind has been
\* taken from a stack.
InitialRoundState_big_blind_unpaid(hands) ==
    RoundState(0, 0, Pair(SMALL_BLIND, BIG_BLIND),
               Pair(STARTING_STACK - SMALL_BLIND, STARTING_STACK), hands)

\* The first RoundState of a round, as run_round and _reset_round build it.
InitialRoundState(hands) ==
    RoundState(0, 0, Pair(SMALL_BLIND, BIG_BLIND),
               Pair(STARTING_STACK - SMALL_BLIND, STARTING_STACK - BIG_BLIND), hands)

\* The chips on the closed streets after round_state.proceed(action) returned
\* the RoundState next: a street that closes adds the pips it closed with.
CommittedAfter(action, next) ==
    LET closing == IF action.type = "CallAction" /\ round_state.button # 0
                   THEN CallState(round_state) ELSE round_state
    IN  IF next.street > round_state.street
        THEN [i \in Players |-> committed[i] + closing.pips[i]]
        ELSE committed

\* Bookkeeping shared by the two drivers for one call
\* round_state.proceed(action) returning res.
Proceeded(action, res) ==
    LET fresh == produced.kind # "RoundState"
    IN  /\ before' = round_state
        /\ before_board' = board
        /\ before_deck' = deck
        /\ after_board' = res.board
        /\ after_deck' = res.deck
        /\ produced' = res.state
        /\ nproceed' = (IF fresh THEN 0 ELSE nproceed) + 1
        /\ nterminal' = (IF fresh THEN 0 ELSE nterminal)
                        + (IF res.state.kind = "TerminalState" THEN 1 ELSE 0)

\* ------------------------------------------------------------------------
\* Game (engine/engine_log.py) with Player.request_action (engine/player.py)
\* ------------------------------------------------------------------------

\* all(player.check_ready(player_names) for player in self.players): all()
\* stops at the first False, so the second player is asked only after the
\* first reported ready.  r0 and r1 are what the two calls return.
ReadyResults(r0, r1) ==
    IF r0 THEN Pair("True", IF r1 THEN "True" ELSE "False")
    ELSE Pair("False", "not_called")

\* Variant of the test of run_match that lets the match start when one of
\* the players is ready.
MatchStarts_either(results) == results[0] = "True" \/ results[1] = "True"

\* "if not all(...): return"
MatchStarts(results) == results[0] = "True" /\ results[1] = "True"

\* run_match up to its for loop: the readiness checks of the two players.
CheckReady ==
    /\ driver = "Game"
    /\ pc = "check_ready"
    /\ \E o0 \in ReadyScripts(max_retries) :
       \E r0 \in {Player_check_ready(0, o0).result} :
       \E o1 \in ReadyScripts(max_retries) :
       \E r1 \in {Player_check_ready(1, o1).result} :
            /\ ready' = ReadyResults(r0, r1)
            /\ pc' = IF MatchStarts(ready') THEN "run_match" ELSE "aborted"
    /\ UNCHANGED << delivery_vars, driver, round_state, board, deck, game_clock, bankroll, round_num,
                    submitted, validated, before, produced, committed, nproceed,
                    nterminal, notified, proceed_vars, player_vars, log_vars, eval_vars,
                    runner_vars >>

\* An action of the round with the player who took it.
Taken(player, action) == [player |-> player, action |-> action]

\* The actions of the entries of a sequence of Taken records.
ActionsOf(entries) == [k \in 1..Len(entries) |-> entries[k].action]

\* Variant of the message that carries every action applied since the
\* player was last sent a request, the player's own included.
Message_own_included(kind, i) ==
    [kind |-> kind, to |-> i,
     new_actions |-> convert_actions_to_proto(ActionsOf(since[i])),
     since |-> since[i]]

\* The message request_action or end_round sends to player i: its
\* new_actions are the conversion of the deque pending for i.  since is
\* what has been applied since i was last sent a request.
Message(kind, i) ==
    [kind |-> kind, to |-> i,
     new_actions |-> convert_actions_to_proto(new_actions[i]),
     since |-> since[i]]

\* run_round, up to the while loop
StartRound ==
    /\ driver = "Game"
    /\ pc = "run_match"
    /\ \E draw \in Draws :
        LET cards == Shuffled(draw)
            hands == Pair(Deal(cards, 1), Deal(AfterDeal(cards, 1), 1))
        IN  /\ round_state' = InitialRoundState(hands)
            /\ bot_state' = Runner_new_round(hands[0])
            /\ deck' = AfterDeal(cards, 2)
    /\ board' = << >>
    /\ committed' = Pair(0, 0)
    /\ notified' = {}
    /\ new_actions' = NoActions
    /\ since' = NoActions
    /\ delivered' = << >>
    /\ pc' = "run_round"
    /\ UNCHANGED << gate_vars, driver, game_clock, bankroll, round_num, submitted, validated,
                    before, produced, nproceed, nterminal, proceed_vars, player_vars, log_vars, eval_vars >>

\* One iteration of the while loop of run_round: request_action,
\* _validate_action, proceed.  request_action charges the duration of the
\* call to the player's clock and raises TimeoutError when the clock is
\* used up; run_round and run_match do not catch it.  The CSV logging calls
\* of the loop (log_round_state, log_action) are left out.
RunRoundStep ==
    /\ driver = "Game"
    /\ pc = "run_round"
    /\ round_state.kind = "RoundState"
    /\ \E response \in Responses, duration \in Durations :
        LET active == round_state.button % 2
            call == request_action(active, game_clock[active], response, duration)
        IN  /\ game_clock' = [game_clock EXCEPT ![active] = call.game_clock]
            /\ request' = call
            /\ delivered' = << Message("request_action", active) >>
            /\ IF call.raised
               THEN /\ pc' = "TimeoutError"
                    /\ new_actions' = [new_actions EXCEPT ![active] = << >>]
                    /\ since' = [since EXCEPT ![active] = << >>]
                    /\ UNCHANGED << round_state, board, deck, submitted, validated,
                                    before, produced, committed, nproceed, nterminal,
                                    proceed_vars, runner_vars >>
               ELSE \E action \in {Game_validate_action(call.action, round_state)} :
                    \E res \in {proceed(round_state, action, board, deck)} :
                      /\ pc' = pc
                      /\ submitted' = call.action
                      /\ validated' = action
                      /\ round_state' = res.state
                      /\ new_actions' = [new_actions EXCEPT ![active] = << >>,
                                                            ![1 - active] = Append(@, action)]
                      /\ since' = [i \in Players |->
                                     IF i = active THEN << Taken(active, action) >>
                                     ELSE Append(since[i], Taken(active, action))]
                      /\ bot_state' = Runner_proceed(bot_state, action)
                      /\ board' = res.board
                      /\ deck' = res.deck
                      /\ Proceeded(action, res)
                      /\ committed' = IF res.state.kind = "TerminalState" THEN committed
                                      ELSE CommittedAfter(action, res.state)
    /\ UNCHANGED << gate_vars, driver, bankroll, round_num, notified, ready_call, log_vars, eval_vars >>

\* The end of run_round: end_round for both players, bankrolls; then the
\* loop of run_match goes to the next round or ends the match.
EndRound ==
    /\ driver = "Game"
    /\ pc = "run_round"
    /\ round_state.kind = "TerminalState"
    /\ notified' = Players
    /\ delivered' = << Message("end_round", 0), Message("end_round", 1) >>
    /\ new_actions' = NoActions
    /\ since' = NoActions
    /\ bankroll' = [i \in Players |-> bankroll[i] + round_state.deltas[i]]
    /\ IF round_num < NUM_ROUNDS
       THEN round_num' = round_num + 1 /\ pc' = "run_match"
       ELSE round_num' = round_num /\ pc' = "match_over"
    /\ UNCHANGED << gate_vars, runner_vars, driver, round_state, board, deck, game_clock, submitted, validated,
                    before, produced, committed, nproceed, nterminal, proceed_vars,
                    player_vars, log_vars, eval_vars >>

\* ------------------------------------------------------------------------
\* PokerEnv (engine/gym_env.py)
\* ------------------------------------------------------------------------

\* _reset_round: a new deck, two cards to each player, the blinds
ResetRound ==
    /\ \E draw \in Draws :
        LET cards == Shuffled(draw)
            hands == Pair(Deal(cards, 2), Deal(AfterDeal(cards, 2), 2))
        IN  /\ round_state' = InitialRoundState(hands)
            /\ bot_state' = Runner_new_round(hands[0])
            /\ deck' = AfterDeal(cards, 4)
    /\ board' = << >>
    /\ committed' = Pair(0, 0)

\* reset()
Reset ==
    /\ driver = "PokerEnv"
    /\ pc = "init"
    /\ bankroll' = Pair(0, 0)
    /\ round_num' = 1
    /\ ResetRound
    /\ pc' = "step"
    /\ UNCHANGED << delivery_vars, gate_vars, driver, game_clock, submitted, validated, before, produced,
                    nproceed, nterminal, notified, proceed_vars, player_vars, log_vars, eval_vars >>

\* step(action) in two-player mode: _step_without_opp validates the action
\* and proceeds; at a TerminalState _end_round books the deltas, resets the
\* round and counts it.
Step ==
    /\ driver = "PokerEnv"
    /\ pc = "step"
    /\ round_num <= NUM_ROUNDS
    /\ \E given \in Submittable :
       \E action \in {PokerEnv_validate_action(given, round_state)} :
       \E res \in {proceed(round_state, action, board, deck)} :
            /\ submitted' = given
            /\ validated' = action
            /\ Proceeded(action, res)
            /\ IF res.state.kind = "TerminalState"
               THEN /\ bankroll' = [i \in Players |-> bankroll[i] + res.state.deltas[i]]
                    /\ ResetRound
                    /\ round_num' = round_num + 1
               ELSE /\ round_state' = res.state
                    /\ bot_state' = Runner_proceed(bot_state, action)
                    /\ board' = res.board
                    /\ deck' = res.deck
                    /\ committed' = CommittedAfter(action, res.state)
                    /\ UNCHANGED << bankroll, round_num >>
    /\ UNCHANGED << delivery_vars, gate_vars, driver, pc, game_clock, notified, player_vars, log_vars, eval_vars >>

Next == CheckReady \/ StartRound \/ RunRoundStep \/ EndRound \/ Reset \/ Step

Spec == Init /\ [][Next]_vars

\* The orchestrator is a sequential program whose every call returns (each
\* RPC has a timeout), so a step of it that can be taken is taken.
GameNext == CheckReady \/ StartRound \/ RunRoundStep \/ EndRound

FairSpec == Init /\ [][Next]_vars /\ WF_vars(GameNext)

\* --- one remote player's methods under any caller ---

\* How far below zero the calls made after the clock ran out may take it.
MaxOverrun == 2

InitClient ==
    /\ driver = "Client"
    /\ pc = "connected"
    /\ round_state = None
    /\ board = << >>
    /\ deck = << >>
    /\ game_clock = [i \in Players |-> STARTING_GAME_CLOCK]
    /\ bankroll = [i \in Players |-> 0]
    /\ round_num = 1
    /\ submitted = None
    /\ validated = None
    /\ before = None
    /\ produced = None
    /\ committed = Pair(0, 0)
    /\ nproceed = 0
    /\ nterminal = 0
    /\ notified = {}
    /\ before_board = << >>
    /\ before_deck = << >>
    /\ after_board = << >>
    /\ after_deck = << >>
    /\ request = None
    /\ ready_call = None
    /\ log = << >>
    /\ log_size = 0
    /\ dropped = FALSE
    /\ combined = << >>
    /\ score = 0
    /\ delivered = << >>
    /\ since = NoActions
    /\ new_actions = NoActions
    /\ ready = NotReadyYet
    /\ bot_state = None
    /\ skeleton_score = 0
    /\ ranges = None

game_vars == << driver, round_state, board, deck, bankroll, round_num, submitted,
               validated, before, produced, committed, nproceed, nterminal, notified,
               proceed_vars >>

\* check_ready of a Player before the match: requests are made only to a
\* player that reported ready (run_match returns otherwise).
PlayerCheckReady ==
    /\ driver = "Client"
    /\ pc = "connected"
    /\ \E p \in Players, outcomes \in ReadyScripts(max_retries) :
        /\ ready_call' = Player_check_ready(p, outcomes)
        /\ pc' = IF ready_call'.result THEN "ready" ELSE "not_ready"
    /\ UNCHANGED << delivery_vars, gate_vars, runner_vars, game_vars, game_clock, request, log_vars, eval_vars >>

\* check_ready of a Client
ClientCheckReady ==
    /\ driver = "Client"
    /\ pc = "connected"
    /\ \E p \in Players, outcomes \in ReadyScripts(READY_CHECK_RETRIES) :
        /\ ready_call' = Client_check_ready(p, outcomes)
        /\ pc' = IF ready_call'.result THEN "ready" ELSE "not_ready"
    /\ UNCHANGED << delivery_vars, gate_vars, runner_vars, game_vars, game_clock, request, log_vars, eval_vars >>

\* request_action of the player that reported ready, also after a
\* TimeoutError it raised was caught by the caller.
RequestActionCall ==
    /\ driver = "Client"
    /\ pc = "ready"
    /\ \E p \in {ready_call.player}, response \in Responses, duration \in Durations :
        /\ game_clock[p] > 0 - MaxOverrun
        /\ request' = request_action(p, game_clock[p], response, duration)
        /\ game_clock' = [game_clock EXCEPT ![p] = request'.game_clock]
    /\ UNCHANGED << delivery_vars, gate_vars, runner_vars, game_vars, pc, ready_call, log_vars, eval_vars >>

ClientNext == PlayerCheckReady \/ ClientCheckReady \/ RequestActionCall

SpecClient == InitClient /\ [][ClientNext]_vars

\* --- Client.end_round over the rounds of a match ---

\* Sizes of the entries an agent returns, entries per response, and rounds
\* ended in a match.
MaxEntrySize == 2

MaxEntries == 2

LoggedRounds == 3

\* What stub.EndRound does: it raises grpc.RpcError or returns a response
\* whose logs are a list of strings (the empty string included).
EndRoundResponses ==
    {[status |-> "RpcError"]}
    \cup {[status |-> "ok", logs |-> [k \in 1..Len(sizes) |-> LogEntry(sizes[k])]] :
            sizes \in UNION {[1..n -> 0..MaxEntrySize] : n \in 0..MaxEntries}}

InitLog ==
    /\ driver = "Log"
    /\ pc = "connected"
    /\ round_state = None
    /\ board = << >>
    /\ deck = << >>
    /\ game_clock = [i \in Players |-> STARTING_GAME_CLOCK]
    /\ bankroll = [i \in Players |-> 0]
    /\ round_num = 1
    /\ submitted = None
    /\ validated = None
    /\ before = None
    /\ produced = None
    /\ committed = Pair(0, 0)
    /\ nproceed = 0
    /\ nterminal = 0
    /\ notified = {}
    /\ before_board = << >>
    /\ before_deck = << >>
    /\ after_board = << >>
    /\ after_deck = << >>
    /\ request = None
    /\ ready_call = None
    /\ log = << >>
    /\ log_size = 0
    /\ dropped = FALSE
    /\ combined = << >>
    /\ score = 0
    /\ delivered = << >>
    /\ since = NoActions
    /\ new_actions = NoActions
    /\ ready = NotReadyYet
    /\ bot_state = None
    /\ skeleton_score = 0
    /\ ranges = None

\* end_round of one Client at the end of round round_num
EndRoundCall ==
    /\ driver = "Log"
    /\ round_num <= LoggedRounds
    /\ \E response \in EndRoundResponses :
       \E st \in {Client_end_round([log |-> log, log_size |-> log_size,
                                     dropped |-> dropped], response)} :
            /\ log' = st.log
            /\ log_size' = st.log_size
            /\ dropped' = st.dropped
    /\ round_num' = round_num + 1
    /\ UNCHANGED << delivery_vars, gate_vars, runner_vars, driver, pc, round_state, board, deck, game_clock, bankroll,
                    submitted, validated, before, produced, committed, nproceed,
                    nterminal, notified, proceed_vars, player_vars, eval_vars >>

SpecLog == InitLog /\ [][EndRoundCall]_vars

\* --- raise_bounds as a function of the state it is called on ---

\* The positions of a flop or river street raise_bounds is asked about.
\* raise_bounds reads button, pips and stacks only.  Both players hold the
\* same total of stack plus pip (what the closed streets left them).  At
\* button 1 nobody has bet; at button 2 player 0 has not acted; later the
\* player who acted last has the higher pip.
BoundsInputs ==
    {in \in [button : 1..4, street : {1, 2}, total : 0..STARTING_STACK,
             pips : [Players -> 0..STARTING_STACK]] :
        /\ in.pips[0] <= in.total /\ in.pips[1] <= in.total
        /\ in.button = 1 => in.pips = Pair(0, 0)
        /\ in.button = 2 => in.pips[0] = 0
        /\ in.button >= 3 => in.pips[1 - (in.button % 2)] > in.pips[in.button % 2]}

InitBounds ==
    /\ driver = "raise_bounds"
    /\ pc = "call"
    /\ \E in \in BoundsInputs :
        LET cards == Shuffled(CHOOSE d \in Draws : TRUE)
            hands == Pair(Deal(cards, 2), Deal(AfterDeal(cards, 2), 2))
            rest == AfterDeal(cards, 4)
        IN  /\ round_state = RoundState(in.button, in.street, in.pips,
                                        [i \in Players |-> in.total - in.pips[i]], hands)
            /\ board = Deal(rest, in.street)
            /\ deck = AfterDeal(rest, in.street)
    /\ game_clock = [i \in Players |-> STARTING_GAME_CLOCK]
    /\ bankroll = [i \in Players |-> 0]
    /\ round_num = 1
    /\ submitted = None
    /\ validated = None
    /\ before = None
    /\ produced = None
    /\ committed = Pair(0, 0)
    /\ nproceed = 0
    /\ nterminal = 0
    /\ notified = {}
    /\ before_board = << >>
    /\ before_deck = << >>
    /\ after_board = << >>
    /\ after_deck = << >>
    /\ request = None
    /\ ready_call = None
    /\ log = << >>
    /\ log_size = 0
    /\ dropped = FALSE
    /\ combined = << >>
    /\ score = 0
    /\ delivered = << >>
    /\ since = NoActions
    /\ new_actions = NoActions
    /\ ready = NotReadyYet
    /\ bot_state = None
    /\ skeleton_score = 0
    /\ ranges = None

\* A raise is submitted in the position: _validate_action tests it against
\* raise_bounds and proceed applies what comes out.
RaiseSubmitted ==
    /\ driver = "raise_bounds"
    /\ pc = "call"
    /\ \E given \in {RaiseAction(a) : a \in Amounts} :
       \E action \in {PokerEnv_validate_action(given, round_state)} :
       \E res \in {proceed(round_state, action, board, deck)} :
            /\ submitted' = given
            /\ validated' = action
            /\ Proceeded(action, res)
            /\ round_state' = res.state
            /\ board' = res.board
            /\ deck' = res.deck
    /\ pc' = "returned"
    /\ UNCHANGED << delivery_vars, gate_vars, runner_vars, driver, game_clock, bankroll, round_num, committed, notified,
                    player_vars, log_vars, eval_vars >>

SpecBounds == InitBounds /\ [][RaiseSubmitted]_vars

\* --- evaluate as a function of the cards it is given ---

\* itertools.combinations of 4 out of n, as index quadruples
Combos4(n) ==
    UNION {{<< t[1], t[2], t[3], l >> : l \in (t[3] + 1)..n} : t \in Combos3(n)}

\* The cards evaluate is given at a showdown: every 3 cards of the deck
\* (one hole card and the board, Game) and every 4 (two hole cards and the
\* board, PokerEnv).
EvalHands ==
    {[i \in 1..3 |-> ShortDeckCards[t[i]]] : t \in Combos3(27)}
    \cup {[i \in 1..4 |-> ShortDeckCards[t[i]]] : t \in Combos4(27)}

\* evaluate(hand, board) on the cards h, the last two being the board
Score(h) == evaluate(SubSeq(h, 1, Len(h) - 2), SubSeq(h, Len(h) - 1, Len(h)))

\* The skeleton's evaluate(hand, board) on the same cards
SkeletonScore(h) ==
    skeleton_evaluate(SubSeq(h, 1, Len(h) - 2), SubSeq(h, Len(h) - 1, Len(h)))

\* The rank held twice among the cards h, 0 when there is none.
PairedRank(h) ==
    LET twice == {r \in Ranks : Cardinality({i \in 1..Len(h) : Rank(h[i]) = r}) = 2}
    IN  IF twice = {} THEN 0 ELSE CHOOSE r \in twice : TRUE

\* Every hand of the deck as evaluate sees it: number of cards, branch
\* taken, paired rank, score.
ScoredHands ==
    {[n |-> Len(h), cat |-> category(h), paired |-> PairedRank(h), score |-> Score(h)] :
        h \in EvalHands}

SetMin(S) == CHOOSE x \in S : \A y \in S : x <= y

SetMax(S) == 0 - SetMin({0 - x : x \in S})

\* Lowest and highest score of the hands of n cards in each category, and
\* of the pair hands of n cards for each paired rank.
ScoreRanges ==
    LET scored == ScoredHands
        pairs == {u \in scored : u.cat = "pair"}
        in_cat(n, c) == {t.score : t \in {u \in scored : u.n = n /\ u.cat = c}}
        of_rank(n, p) == {t.score : t \in {u \in pairs : u.n = n /\ u.paired = p}}
    IN  [category |->
            {[n |-> k[1], cat |-> k[2],
              lo |-> SetMin(in_cat(k[1], k[2])), hi |-> SetMax(in_cat(k[1], k[2]))] :
                k \in {<< t.n, t.cat >> : t \in scored}},
         pair |->
            {[n |-> k[1], paired |-> k[2],
              lo |-> SetMin(of_rank(k[1], k[2])), hi |-> SetMax(of_rank(k[1], k[2]))] :
                k \in {<< t.n, t.paired >> : t \in pairs}}]

InitEval ==
    /\ driver = "evaluate"
    /\ pc = "call"
    /\ ranges = ScoreRanges
    /\ combined \in EvalHands
    /\ score = 0
    /\ delivered = << >>
    /\ since = NoActions
    /\ new_actions = NoActions
    /\ ready = NotReadyYet
    /\ bot_state = None
    /\ skeleton_score = 0
    /\ round_state = None
    /\ board = << >>
    /\ deck = << >>
    /\ game_clock = [i \in Players |-> STARTING_GAME_CLOCK]
    /\ bankroll = [i \in Players |-> 0]
    /\ round_num = 1
    /\ submitted = None
    /\ validated = None
    /\ before = None
    /\ produced = None
    /\ committed = Pair(0, 0)
    /\ nproceed = 0
    /\ nterminal = 0
    /\ notified = {}
    /\ before_board = << >>
    /\ before_deck = << >>
    /\ after_board = << >>
    /\ after_deck = << >>
    /\ request = None
    /\ ready_call = None
    /\ log = << >>
    /\ log_size = 0
    /\ dropped = FALSE

\* evaluate(hand, board)
EvaluateCall ==
    /\ driver = "evaluate"
    /\ pc = "call"
    /\ score' = Score(combined)
    /\ skeleton_score' = SkeletonScore(combined)
    /\ pc' = "returned"
    /\ UNCHANGED << delivery_vars, gate_vars, runner_vars, driver, combined, ranges, round_state, board, deck, game_clock, bankroll,
                    round_num, submitted, validated, before, produced, committed,
                    nproceed, nterminal, notified, proceed_vars, player_vars, log_vars >>

SpecEval == InitEval /\ [][EvaluateCall]_vars

\* --- showdown as a function of the state it is called on ---

\* The states showdown is applied to: hands of one card (Game) or two
\* (PokerEnv) and a board of board_len cards dealt from a shuffled deck.
\* With the board complete the stacks are any two values; proceed_street
\* reaches showdown with an incomplete board only when both stacks are 0.
ShowdownInputs ==
    {[draw |-> d, hand_size |-> h, board_len |-> k, stacks |-> Pair(s0, s1)] :
        d \in Draws, h \in {1, 2}, k \in {2},
        s0 \in 0..STARTING_STACK, s1 \in 0..STARTING_STACK}
    \cup {[draw |-> d, hand_size |-> h, board_len |-> k, stacks |-> Pair(0, 0)] :
        d \in Draws, h \in {1, 2}, k \in {0, 1}}

InitShowdown ==
    /\ driver = "showdown"
    /\ pc = "call"
    /\ \E in \in ShowdownInputs :
        LET cards == Shuffled(in.draw)
            h == in.hand_size
            hands == Pair(Deal(cards, h), Deal(AfterDeal(cards, h), h))
            rest == AfterDeal(cards, 2 * h)
        IN  /\ round_state = RoundState(1, 2, Pair(0, 0), in.stacks, hands)
            /\ board = Deal(rest, in.board_len)
            /\ deck = AfterDeal(rest, in.board_len)
    /\ game_clock = [i \in Players |-> STARTING_GAME_CLOCK]
    /\ bankroll = [i \in Players |-> 0]
    /\ round_num = 1
    /\ submitted = None
    /\ validated = None
    /\ before = None
    /\ produced = None
    /\ committed = Pair(0, 0)
    /\ nproceed = 0
    /\ nterminal = 0
    /\ notified = {}
    /\ before_board = << >>
    /\ before_deck = << >>
    /\ after_board = << >>
    /\ after_deck = << >>
    /\ request = None
    /\ ready_call = None
    /\ log = << >>
    /\ log_size = 0
    /\ dropped = FALSE
    /\ combined = << >>
    /\ score = 0
    /\ delivered = << >>
    /\ since = NoActions
    /\ new_actions = NoActions
    /\ ready = NotReadyYet
    /\ bot_state = None
    /\ skeleton_score = 0
    /\ ranges = None

\* round_state.showdown()
ShowdownCall ==
    /\ driver = "showdown"
    /\ pc = "call"
    /\ \E res \in {showdown(round_state, board, deck)} :
        /\ before' = round_state
        /\ before_board' = board
        /\ before_deck' = deck
        /\ after_board' = board
        /\ after_deck' = deck
        /\ produced' = res
        /\ round_state' = res
    /\ pc' = "returned"
    /\ UNCHANGED << delivery_vars, gate_vars, runner_vars, driver, board, deck, game_clock, bankroll, round_num, submitted,
                    validated, committed, nproceed, nterminal, notified, player_vars, log_vars, eval_vars >>

SpecShowdown == InitShowdown /\ [][ShowdownCall]_vars

\* ------------------------------------------------------------------------
\* Properties
\* ------------------------------------------------------------------------

IsRoundState(s) == s.kind = "RoundState"

IsTerminalState(s) == s.kind = "TerminalState"

Active(s) == s.button % 2

ContinueCost(s) == s.pips[1 - Active(s)] - s.pips[Active(s)]

\* An action the state machine lists as legal, a raise within the bounds.
IsLegal(action, s) ==
    /\ action.type \in legal_actions(s)
    /\ action.type = "RaiseAction" =>
         /\ raise_bounds(s)[1] <= action.amount
         /\ action.amount <= raise_bounds(s)[2]

\* C1: every TerminalState returned by proceed (fold, full-board showdown,
\* equity chop) has deltas that sum to zero.
C1_ZeroSum ==
    IsTerminalState(produced) => produced.deltas[0] + produced.deltas[1] = 0

\* A call of an all-in before the river, settled by an uneven equity chop.
C1_Witness ==
    /\ IsTerminalState(produced)
    /\ validated.type = "CallAction"
    /\ produced.previous_state.street < 2
    /\ produced.previous_state.stacks = Pair(0, 0)
    /\ produced.deltas[0] \notin {0, STARTING_STACK, 0 - STARTING_STACK}

\* C2: every non-terminal RoundState reached from the blinds by legal
\* actions has at least one legal action.
C2_LegalActionsNonEmpty ==
    IsRoundState(round_state) => legal_actions(round_state) # {}

\* A player facing an all-in: neither a raise nor a check is on offer.
C2_Witness ==
    /\ IsRoundState(round_state)
    /\ round_state.stacks[1 - Active(round_state)] = 0
    /\ ContinueCost(round_state) > 0
    /\ legal_actions(round_state) = {"FoldAction", "CallAction"}

\* C3: where a raise is legal, the bounds satisfy min <= max and a raise to
\* any amount from min to max leaves the raiser's stack >= 0.
C3_RaiseBoundsSound ==
    (IsRoundState(round_state) /\ "RaiseAction" \in legal_actions(round_state)) =>
        LET bounds == raise_bounds(round_state)
        IN  /\ bounds[1] <= bounds[2]
            /\ \A amount \in bounds[1]..bounds[2] :
                 proceed(round_state, RaiseAction(amount), board, deck)
                    .state.stacks[Active(round_state)] >= 0

\* A raise to the maximum has been applied and took the raiser's last chip.
C3_Witness ==
    /\ IsRoundState(produced)
    /\ validated.type = "RaiseAction"
    /\ validated.amount = raise_bounds(before)[2]
    /\ raise_bounds(before)[1] < raise_bounds(before)[2]
    /\ produced.stacks[Active(before)] = 0

\* C4: stacks and pips are never negative, the continue cost lies between 0
\* and the active player's stack, a legal call keeps the caller's stack >= 0
\* and the largest legal raise is an amount the opponent can match.
C4_NonNegative ==
    IsRoundState(round_state) =>
        LET active == Active(round_state)
        IN  /\ \A i \in Players : round_state.stacks[i] >= 0 /\ round_state.pips[i] >= 0
            /\ 0 <= ContinueCost(round_state)
            /\ ContinueCost(round_state) <= round_state.stacks[active]
            /\ "CallAction" \in legal_actions(round_state) =>
                 (IF round_state.button = 0
                  THEN proceed(round_state, CallAction, board, deck).state.stacks[active]
                  ELSE CallState(round_state).stacks[active]) >= 0
            /\ "RaiseAction" \in legal_actions(round_state) =>
                 raise_bounds(round_state)[2]
                    <= round_state.pips[1 - active] + round_state.stacks[1 - active]

\* A call that cost the caller the whole remaining stack has been applied.
C4_Witness ==
    /\ validated.type = "CallAction"
    /\ IsRoundState(before)
    /\ before.button > 0
    /\ ContinueCost(before) = before.stacks[Active(before)]
    /\ ContinueCost(before) > 0

\* C5 as stated: in every reachable RoundState, the start of the flop and
\* river streets included, the stacks and pips add up to 2 * STARTING_STACK.
C5_Original ==
    IsRoundState(round_state) =>
        round_state.stacks[0] + round_state.pips[0]
        + round_state.stacks[1] + round_state.pips[1] = 2 * STARTING_STACK

\* C5 amended: the stacks and pips add up to 2 * STARTING_STACK on the
\* preflop street; once pips have been reset they add up to
\* 2 * STARTING_STACK less the chips put in on the closed streets, which is
\* a positive amount.
C5_ChipConservation ==
    IsRoundState(round_state) =>
        LET total == round_state.stacks[0] + round_state.pips[0]
                     + round_state.stacks[1] + round_state.pips[1]
        IN  /\ total + committed[0] + committed[1] = 2 * STARTING_STACK
            /\ round_state.street = 0 => total = 2 * STARTING_STACK
            /\ round_state.street > 0 => total < 2 * STARTING_STACK

\* The river street has just begun after bets on both earlier streets.
C5_Witness ==
    /\ IsRoundState(round_state)
    /\ round_state.street = 2
    /\ round_state.pips = Pair(0, 0)
    /\ committed[0] + committed[1] > 2 * BIG_BLIND
    /\ round_state.stacks[0] + round_state.stacks[1] < 2 * STARTING_STACK

\* C6: for each player, stack + pip + the chips that player put in on the
\* closed streets of the round (the pips at each street close) is
\* STARTING_STACK.
C6_PlayerConservation ==
    IsRoundState(round_state) =>
        \A i \in Players :
            round_state.stacks[i] + round_state.pips[i] + committed[i] = STARTING_STACK

\* A bet on the flop has been called, after a raised preflop street.
C6_Witness ==
    /\ IsRoundState(round_state)
    /\ round_state.street = 2
    /\ validated.type = "CallAction"
    /\ committed[0] > 2 * BIG_BLIND
    /\ committed[0] = committed[1]

\* Upper bound on the non-terminal states left on any line of play from s:
\* a raise takes chips from the stacks, a first check on a later street
\* uses up the check flag, a street close moves to the next street.
Measure(s) ==
    s.stacks[0] + s.stacks[1] + 3 * (2 - s.street)
    + (IF s.street > 0 /\ s.button = 1 THEN 1 ELSE 0)

ProceedBound == 2 * STARTING_STACK + 4

\* C7: a round takes a bounded number of proceed calls (each call that
\* returns a RoundState lowers Measure), proceed is never called after a
\* TerminalState, and the calls of a round return exactly one
\* TerminalState, which ends it.
C7_BoundedRound ==
    /\ nproceed <= ProceedBound
    /\ nterminal <= 1
    /\ IsRoundState(produced) =>
         /\ nterminal = 0
         /\ Measure(produced) >= 0
         /\ nproceed + Measure(produced) < ProceedBound
    /\ IsTerminalState(produced) => nterminal = 1 /\ nproceed >= 1
    /\ (driver = "Game" /\ pc \in {"run_match", "match_over"} /\ nproceed > 0)
         => nterminal = 1

\* A round that was played to a showdown on the river through raises.
C7_Witness ==
    /\ IsTerminalState(produced)
    /\ nterminal = 1
    /\ nproceed >= 6
    /\ produced.previous_state.street = 2
    /\ validated.type # "FoldAction"

\* C8 as stated: every round the orchestrator starts completes, with both
\* clients notified through end_round, whatever the remote agents do.
C8_Original ==
    (driver = "Game" /\ pc = "run_round") ~> (notified = Players)

\* C9: the action _validate_action hands to proceed is legal, a raise
\* within the bounds, and an illegal or missing submission is replaced by
\* Check when Check is legal and by Fold otherwise.
C9_ValidatedIsLegal ==
    IsRoundState(before) =>
        /\ IsLegal(validated, before)
        /\ ~IsLegal(submitted, before) =>
             validated = (IF "CheckAction" \in legal_actions(before)
                          THEN CheckAction ELSE FoldAction)

\* A raise above the maximum was submitted while a raise was legal.
C9_Witness ==
    /\ IsRoundState(before)
    /\ submitted.type = "RaiseAction"
    /\ "RaiseAction" \in legal_actions(before)
    /\ submitted.amount > raise_bounds(before)[2]
    /\ validated = FoldAction

\* C10 as stated: _validate_action returns a legal submission unchanged,
\* in Game and in PokerEnv alike.
C10_Original ==
    (IsRoundState(before) /\ IsLegal(submitted, before)) => validated = submitted

\* C11: a Fold by the active player gives a TerminalState at once: the
\* folder's delta is its stack minus STARTING_STACK (never positive, the
\* chips it has put in), the opponent's delta is the negation, no card is
\* dealt and the deck is not touched.
C11_FoldForfeits ==
    (IsRoundState(before) /\ validated = FoldAction) =>
        LET folder == Active(before)
        IN  /\ IsTerminalState(produced)
            /\ produced.previous_state = before
            /\ produced.deltas[folder] = before.stacks[folder] - STARTING_STACK
            /\ produced.deltas[folder] <= 0
            /\ produced.deltas[1 - folder] = 0 - produced.deltas[folder]
            /\ after_board = before_board
            /\ after_deck = before_deck
            /\ driver = "Game" =>
                 0 - produced.deltas[folder] = committed[folder] + before.pips[folder]
            /\ before.button = 0 =>
                 produced.deltas = Pair(before.stacks[0] - STARTING_STACK,
                                        STARTING_STACK - before.stacks[0])

\* Player 1 folded after the flop, facing a bet, and lost what it had put in.
C11_Witness ==
    /\ IsRoundState(before)
    /\ validated = FoldAction
    /\ Active(before) = 1
    /\ before.street > 0
    /\ IsTerminalState(produced)
    /\ produced.deltas[1] < 0 - BIG_BLIND + 1

\* C15: a Call on the initial state (the small blind completing) gives a
\* RoundState that is not terminal, with button 1, street 0, both pips at
\* BIG_BLIND, both stacks at STARTING_STACK - BIG_BLIND, the hands as they
\* were and the board still empty.
C15_BlindCall ==
    (IsRoundState(before) /\ before.button = 0 /\ validated = CallAction) =>
        /\ produced = RoundState(1, 0, Pair(BIG_BLIND, BIG_BLIND),
                                 Pair(STARTING_STACK - BIG_BLIND, STARTING_STACK - BIG_BLIND),
                                 before.hands)
        /\ after_board = before_board
        /\ after_board = << >>
        /\ after_deck = before_deck

\* The small blind called as its first action.
C15_Witness ==
    /\ IsRoundState(before)
    /\ before = InitialRoundState(before.hands)
    /\ validated = CallAction
    /\ IsRoundState(produced)
    /\ produced.button = 1

\* C16 as stated: proceed (with proceed_street and showdown under it) leaves
\* the state it was called on as it was.  The board of that state is the
\* list the whole round shares, so after the call it reads after_board.
C16_Original ==
    IsRoundState(before) => after_board = before_board

\* The scores of the two hands on a complete board.
ScoreOn(s, b, i) == evaluate(s.hands[i], b)

\* C12: at a showdown on the complete two-card board with unequal scores,
\* the winner's delta is STARTING_STACK minus the loser's stack and the
\* loser's delta is the negation.
C12_WinnerTakesLoserChips ==
    (IsRoundState(before) /\ IsTerminalState(produced) /\ produced.previous_state = before
        /\ validated # FoldAction /\ Len(before_board) = 2
        /\ ScoreOn(before, before_board, 0) # ScoreOn(before, before_board, 1)) =>
        LET winner == IF ScoreOn(before, before_board, 0) > ScoreOn(before, before_board, 1)
                      THEN 0 ELSE 1
            loser == 1 - winner
        IN  /\ produced.deltas[winner] = STARTING_STACK - before.stacks[loser]
            /\ produced.deltas[loser] = before.stacks[loser] - STARTING_STACK

\* Player 0 won a showdown against a player 1 holding a different stack.
C12_Witness ==
    /\ IsRoundState(before)
    /\ IsTerminalState(produced)
    /\ Len(before_board) = 2
    /\ ScoreOn(before, before_board, 0) > ScoreOn(before, before_board, 1)
    /\ before.stacks[0] # before.stacks[1]
    /\ produced.deltas[0] = STARTING_STACK - before.stacks[1]

\* A showdown on the complete board between hands of equal score.
TiedShowdown ==
    /\ IsRoundState(before)
    /\ IsTerminalState(produced)
    /\ produced.previous_state = before
    /\ validated # FoldAction
    /\ Len(before_board) = 2
    /\ ScoreOn(before, before_board, 0) = ScoreOn(before, before_board, 1)

CardSet(cards) == {cards[i] : i \in 1..Len(cards)}

\* The ways to complete the board b with k cards of the deck, as sets.
Completions(cards, k) ==
    IF k = 1 THEN {{c} : c \in CardSet(cards)}
    ELSE {{c, d} : c \in CardSet(cards), d \in CardSet(cards)} \ {{c} : c \in CardSet(cards)}

\* A completion in some order (the evaluator sorts the cards it is given).
AsSeq(completion) ==
    LET c == CHOOSE x \in completion : TRUE
    IN  IF Cardinality(completion) = 1 THEN << c >>
        ELSE << c, CHOOSE y \in completion : y # c >>

\* Number of k-subsets of n cards, k in {1, 2}.
Choose(n, k) == IF k = 1 THEN n ELSE (n * (n - 1)) \div 2

\* C14: a showdown on a board short of k > 0 cards counts every one of the
\* C(|deck|, k) completions (|deck| of them when one board card is out),
\* two for a win of player 0 and one for a tie against two per completion,
\* and gives player 0 round(2 * STARTING_STACK * p0Eq / comb) -
\* STARTING_STACK: the reference count's value, within half a chip of the
\* exact expected share less STARTING_STACK, and player 1 the negation.
C14_EquityChop ==
    (IsRoundState(before) /\ IsTerminalState(produced) /\ produced.previous_state = before
        /\ validated # FoldAction /\ Len(before_board) < 2) =>
        LET k == 2 - Len(before_board)
            all == Completions(before_deck, k)
            scored == {<< c, ScoreOn(before, before_board \o AsSeq(c), 0),
                            ScoreOn(before, before_board \o AsSeq(c), 1) >> : c \in all}
            wins == Cardinality({r \in scored : r[2] > r[3]})
            ties == Cardinality({r \in scored : r[2] = r[3]})
            p0Eq == 2 * wins + ties
            comb == 2 * Cardinality(all)
            share == produced.deltas[0] + STARTING_STACK
            excess == share * comb - 2 * STARTING_STACK * p0Eq
        IN  /\ Cardinality(all) = Choose(Len(before_deck), k)
            /\ k = 1 => Cardinality(all) = Len(before_deck)
            /\ produced.deltas[0] = Round(2 * STARTING_STACK * p0Eq, comb) - STARTING_STACK
            /\ 2 * excess <= comb
            /\ 0 - comb <= 2 * excess
            /\ produced.deltas[1] = 0 - produced.deltas[0]

\* An all-in with one board card out and completions that tie: player 0
\* gets a share strictly between nothing and the whole pot.
C14_Witness ==
    /\ IsRoundState(before)
    /\ IsTerminalState(produced)
    /\ produced.previous_state = before
    /\ Len(before_board) = 1
    /\ \E c \in CardSet(before_deck) :
          ScoreOn(before, before_board \o << c >>, 0) = ScoreOn(before, before_board \o << c >>, 1)
    /\ produced.deltas[0] > 0 - STARTING_STACK
    /\ produced.deltas[0] < STARTING_STACK

IsRequest(r) == r.kind = "request_action"

\* The RPC failed or timed out, or the response named no known action.
NoUsableResponse(r) ==
    \/ r.response.status = "RpcError"
    \/ r.response.status = "ok" /\ r.response.action.action = "UNRECOGNISED"

ClockStep ==
    /\ \A i \in Players :
          /\ game_clock'[i] <= game_clock[i]
          /\ game_clock[i] <= 0 => game_clock'[i] <= 0
    /\ (request' # request) =>
          /\ request'.clock_before = game_clock[request'.player]
          /\ game_clock'[request'.player]
               = game_clock[request'.player] - request'.duration
          /\ \A j \in Players \ {request'.player} : game_clock'[j] = game_clock[j]

\* C18: every request_action takes the elapsed time off the player's
\* game_clock, after a response and after an error alike; no step raises
\* a clock, and a clock at or below zero stays there.
C18_ClockCharged == [][ClockStep]_vars

\* A call that ended in an RPC error was made on a clock already used up
\* and took time: the clock went further down.
C18_Witness ==
    /\ IsRequest(request)
    /\ request.response.status = "RpcError"
    /\ request.duration > 0
    /\ request.clock_before <= 0
    /\ game_clock[request.player] = request.clock_before - request.duration

\* C19 as stated: the call in which the clock ran out signals clock
\* exhaustion, and so does every later call, without sending a request.
C19_Original ==
    IsRequest(request) =>
        /\ request.game_clock <= 0 => request.raised
        /\ request.clock_before <= 0 => (request.raised /\ ~request.sent)

IsReadyCheck(r) == r.kind = "check_ready"

\* C20: check_ready makes at least one and at most the configured number
\* of attempts, returns True at the first attempt that reports ready,
\* returns False only when the configured number of attempts all failed,
\* timed out or reported not ready, and raises nothing.
C20_ReadyCheck ==
    IsReadyCheck(ready_call) =>
        /\ ready_call.attempts \in 1..ready_call.configured
        /\ Len(ready_call.made) = ready_call.attempts
        /\ ~ready_call.raised
        /\ \A k \in 1..(ready_call.attempts - 1) : ready_call.made[k] # "ready"
        /\ ready_call.result <=> ready_call.made[ready_call.attempts] = "ready"
        /\ ~ready_call.result => ready_call.attempts = ready_call.configured

\* A Player was not ready, then unreachable, then ready at the third try.
C20_Witness ==
    /\ IsReadyCheck(ready_call)
    /\ ready_call.class = "Player"
    /\ ready_call.made = << "not_ready", "RpcError", "ready" >>
    /\ ready_call.result

\* The last call of proceed was made on a RoundState with an action other
\* than Fold and ran proceed_street: it gave the next street's RoundState
\* or a showdown's TerminalState.
StreetClosed ==
    /\ IsRoundState(before)
    /\ validated # FoldAction
    /\ \/ IsTerminalState(produced)
       \/ IsRoundState(produced) /\ produced.street = before.street + 1

\* The stacks of the state proceed_street was invoked on by the last call
\* of proceed: a Call pays the continue cost first.
ClosingStacks ==
    [i \in Players |->
        before.stacks[i] - (IF validated = CallAction /\ i = Active(before)
                            THEN ContinueCost(before) ELSE 0)]

\* C24: proceed closes the street exactly for a Call that is not the first
\* action of the round and for a Check made when (street = 0 and
\* button > 0) or button > 1; any other action that gives a RoundState
\* keeps the street; and the pips are equal whenever a street closes (so
\* the stacks are equal when the next street starts).
C24_StreetCloses ==
    (IsRoundState(before) /\ validated # None) =>
        /\ StreetClosed <=>
              \/ validated = CallAction /\ before.button # 0
              \/ /\ validated = CheckAction
                 /\ (before.street = 0 /\ before.button > 0) \/ before.button > 1
        /\ (~StreetClosed /\ validated # FoldAction) =>
              IsRoundState(produced) /\ produced.street = before.street
        /\ (StreetClosed /\ IsTerminalState(produced)) =>
              produced.previous_state.pips[0] = produced.previous_state.pips[1]
        /\ (StreetClosed /\ IsRoundState(produced)) =>
              /\ produced.stacks[0] = produced.stacks[1]
              /\ validated = CheckAction => before.pips[0] = before.pips[1]

\* The second check of the flop closed it.
C24_Witness ==
    /\ StreetClosed
    /\ validated = CheckAction
    /\ before.street = 1
    /\ before.button = 2
    /\ IsRoundState(produced)
    /\ produced.street = 2

\* C25: proceed_street gives a TerminalState and deals nothing when
\* street >= 2 or both stacks are 0; otherwise it moves the deck's top card
\* to the board, adds one to street, resets the pips to [0, 0], sets button
\* to 1 and carries stacks and hands over, so the board holds street cards.
C25_ProceedStreet ==
    StreetClosed =>
        IF before.street >= 2 \/ (ClosingStacks[0] = 0 /\ ClosingStacks[1] = 0)
        THEN /\ IsTerminalState(produced)
             /\ after_board = before_board
             /\ after_deck = before_deck
        ELSE /\ IsRoundState(produced)
             /\ after_board = Append(before_board, before_deck[Len(before_deck)])
             /\ after_deck = SubSeq(before_deck, 1, Len(before_deck) - 1)
             /\ produced.street = before.street + 1
             /\ produced.pips = Pair(0, 0)
             /\ produced.button = 1
             /\ produced.stacks = ClosingStacks
             /\ produced.hands = before.hands
             /\ Len(after_board) = produced.street

\* A call on the flop, with chips left, opened the river.
C25_Witness ==
    /\ StreetClosed
    /\ validated = CallAction
    /\ before.street = 1
    /\ IsRoundState(produced)
    /\ produced.street = 2
    /\ produced.stacks[0] > 0
    /\ Len(after_board) = 2

\* The last call of proceed ended in showdown (not in a fold).
ShowdownReached ==
    /\ IsRoundState(before)
    /\ validated # FoldAction
    /\ IsTerminalState(produced)

\* C26: a showdown on fewer than 2 board cards finds both stacks at 0, and
\* a showdown with chips left in a stack finds the board complete.
C26_ChopOnlyAllIn ==
    ShowdownReached =>
        /\ Len(before_board) < 2 =>
              /\ produced.previous_state.stacks = Pair(0, 0)
              /\ ClosingStacks = Pair(0, 0)
        /\ produced.previous_state.stacks # Pair(0, 0) => Len(before_board) = 2

\* An all-in was called before the flop and went to the equity chop.
C26_Witness ==
    /\ ShowdownReached
    /\ Len(before_board) = 0
    /\ validated = CallAction
    /\ produced.previous_state.stacks = Pair(0, 0)

\* C27: the equity chop deals nothing: board and deck hold after the
\* showdown what they held before it, and the result is terminal, not a
\* state of a further street.
C27_ChopDealsNothing ==
    (ShowdownReached /\ Len(before_board) < 2) =>
        /\ after_board = before_board
        /\ after_deck = before_deck
        /\ Len(after_board) = produced.previous_state.street

\* An all-in on the flop was called and chopped with one board card out.
C27_Witness ==
    /\ ShowdownReached
    /\ Len(before_board) = 1
    /\ after_board = before_board
    /\ after_deck = before_deck
    /\ produced.previous_state.stacks = Pair(0, 0)

\* C28 as stated: button is larger after every proceed that gives a
\* RoundState, street changes included.
C28_Original ==
    (IsRoundState(before) /\ IsRoundState(produced)) => produced.button > before.button

\* C28: button goes up by one at every proceed that gives a RoundState of
\* the same street, and is set back to 1 by every proceed that opens the
\* next street.
C28_ButtonCounts ==
    (IsRoundState(before) /\ IsRoundState(produced)) =>
        IF produced.street = before.street
        THEN produced.button = before.button + 1
        ELSE produced.button = 1 /\ before.button >= 1

\* The flop was opened by a call made at button 3: button fell back to 1.
C28_Witness ==
    /\ IsRoundState(before)
    /\ IsRoundState(produced)
    /\ before.button = 3
    /\ produced.street = before.street + 1
    /\ produced.button = 1

\* C29 as stated: after every proceed that gives a RoundState the other
\* player is active, except after the small blind's first call.
C29_Original ==
    (IsRoundState(before) /\ IsRoundState(produced)
        /\ ~(before.button = 0 /\ validated = CallAction)) =>
        Active(produced) # Active(before)

\* C29: after a proceed that gives a RoundState of the same street (the
\* small blind's first call included) the other player is active; after
\* one that opens the next street player 1 is active, also when player 1
\* made the closing action.
C29_Alternation ==
    (IsRoundState(before) /\ IsRoundState(produced)) =>
        IF produced.street = before.street
        THEN Active(produced) # Active(before)
        ELSE Active(produced) = 1

\* Player 1 closed the preflop street with a check and acts first on the
\* flop.
C29_Witness ==
    /\ IsRoundState(before)
    /\ IsRoundState(produced)
    /\ Active(before) = 1
    /\ validated = CheckAction
    /\ produced.street = before.street + 1
    /\ Active(produced) = 1

\* The bytes of the agent's entries stored in the log.
AcceptedBytes == SumSeq([k \in 1..Len(log) |->
                            IF log[k] = LimitReachedEntry THEN 0 ELSE log[k].size])

\* The positions of the log that hold the truncation marker.
MarkerPositions == {k \in 1..Len(log) : log[k] = LimitReachedEntry}

\* C21 as stated: the entries accepted from a player never total more than
\* PLAYER_LOG_SIZE_LIMIT bytes; once an entry was dropped for exceeding the
\* budget the log holds exactly one truncation marker; and no entry comes
\* after the marker.
C21_Original ==
    /\ AcceptedBytes <= PLAYER_LOG_SIZE_LIMIT
    /\ dropped => Cardinality(MarkerPositions) = 1
    /\ \A m \in MarkerPositions : m = Len(log)

CategoryRange == ranges.category

PairRange == ranges.pair

\* The categories of C22 from the lowest to the highest.
CategoryOrder ==
    << "high card", "pair", "straight", "4-flush", "two pair", "trips", "straight flush" >>

Level(cat) == CHOOSE i \in 1..Len(CategoryOrder) : CategoryOrder[i] = cat

Evaluated == driver = "evaluate" /\ pc = "returned"

\* C22 as stated: of two hands of 4 cards, the one in the higher category
\* (straight flush > trips > two pair > 4-flush > straight > pair > high
\* card) has the higher score.
C22_Original ==
    (Evaluated /\ Len(combined) = 4 /\ InSeq(category(combined), CategoryOrder)) =>
        \A r \in CategoryRange :
            (r.n = 4 /\ InSeq(r.cat, CategoryOrder)) =>
                /\ Level(r.cat) < Level(category(combined)) => r.hi < score
                /\ Level(r.cat) > Level(category(combined)) => score < r.lo

\* C23: of two pair hands of the same number of cards the one with the
\* higher paired rank scores higher whatever the kickers, and among hands
\* of 3 cards every pair hand scores above every high-card hand.
C23_PairOrder ==
    (Evaluated /\ category(combined) = "pair") =>
        /\ \A r \in PairRange :
              r.n = Len(combined) =>
                /\ r.paired < PairedRank(combined) => r.hi < score
                /\ r.paired > PairedRank(combined) => score < r.lo
        /\ Len(combined) = 3 =>
              \A r \in CategoryRange :
                  (r.n = 3 /\ r.cat = "high card") => r.hi < score

\* The pair of ones with the highest kickers, 8 and 9, was scored: it is
\* below the lowest pair of twos although its kickers are the highest.
C23_Witness ==
    /\ Evaluated
    /\ category(combined) = "pair"
    /\ Len(combined) = 4
    /\ PairedRank(combined) = 1
    /\ \E i \in 1..4 : Rank(combined[i]) = 9
    /\ \E i \in 1..4 : Rank(combined[i]) = 8
    /\ \E r \in PairRange : r.n = 4 /\ r.paired = 2 /\ score < r.lo

\* C30: where a raise is legal, the minimum bound is at least the
\* opponent's pip plus the larger of continue cost and big blind, unless
\* that amount is above the maximum bound, and then minimum and maximum
\* are the same.
C30_MinimumRaise ==
    (IsRoundState(round_state) /\ "RaiseAction" \in legal_actions(round_state)) =>
        LET bounds == raise_bounds(round_state)
            opp_pip == round_state.pips[1 - Active(round_state)]
            target == opp_pip + Max(ContinueCost(round_state), BIG_BLIND)
        IN  /\ bounds[1] <= bounds[2]
            /\ IF target <= bounds[2]
               THEN /\ bounds[1] >= target
                    /\ bounds[1] - opp_pip >= BIG_BLIND
                    /\ bounds[1] - opp_pip >= ContinueCost(round_state)
               ELSE bounds[1] = bounds[2]

\* A raise larger than the big blind is to be answered and the stacks
\* leave room above the minimum re-raise, which tops the call by the size
\* of that raise.
C30_Witness ==
    /\ IsRoundState(round_state)
    /\ "RaiseAction" \in legal_actions(round_state)
    /\ ContinueCost(round_state) > BIG_BLIND
    /\ raise_bounds(round_state)[1]
         = round_state.pips[1 - Active(round_state)] + ContinueCost(round_state)
    /\ raise_bounds(round_state)[1] < raise_bounds(round_state)[2]

\* C35: in every RoundState reached by legal actions both players hold the
\* same total of stack and pip, so the maximum raise bound is the active
\* player's pip plus their whole stack, and the call of a raise that took
\* the raiser's last chip leaves both stacks at 0.
C35_EqualTotals ==
    IsRoundState(round_state) =>
        LET active == Active(round_state)
        IN  /\ round_state.stacks[0] + round_state.pips[0]
                 = round_state.stacks[1] + round_state.pips[1]
            /\ raise_bounds(round_state)[2]
                 = round_state.pips[active] + round_state.stacks[active]
            /\ (ContinueCost(round_state) > 0 /\ round_state.stacks[1 - active] = 0) =>
                 CallState(round_state).stacks = Pair(0, 0)

\* An all-in raise has been called and the showdown found both stacks
\* empty.
C35_Witness ==
    /\ IsRoundState(before)
    /\ validated = CallAction
    /\ ContinueCost(before) > 0
    /\ before.stacks[1 - Active(before)] = 0
    /\ before.stacks[Active(before)] > 0
    /\ IsTerminalState(produced)
    /\ produced.previous_state.stacks = Pair(0, 0)

\* A RoundState on which no action of its street has been taken yet: the
\* blinds position, or a state proceed_street has just built.
StreetStart(s) ==
    /\ IsRoundState(s)
    /\ (s.street = 0 /\ s.button = 0) \/ (s.street > 0 /\ s.button = 1)

\* The full-board showdown just reached was a tie.
TiedFullBoard ==
    /\ ShowdownReached
    /\ Len(before_board) = 2
    /\ ScoreOn(produced.previous_state, before_board, 0)
         = ScoreOn(produced.previous_state, before_board, 1)

\* C36 as stated: the stacks are equal at the start of every street, the
\* first included, and at every showdown, and a tied full-board showdown
\* yields deltas [0, 0].
C36_Original ==
    /\ StreetStart(round_state) => round_state.stacks[0] = round_state.stacks[1]
    /\ ShowdownReached =>
         produced.previous_state.stacks[0] = produced.previous_state.stacks[1]
    /\ TiedFullBoard => produced.deltas = Pair(0, 0)

\* C36: the stacks are equal at the start of the flop and of the river
\* (every state proceed_street builds) and at every showdown, so a tied
\* full-board showdown yields deltas [0, 0] and the stack difference it
\* halves is never odd.  The first street starts from the blinds, where the
\* stacks differ by the difference of the blinds.
C36_EqualStacks ==
    /\ (StreetStart(round_state) /\ round_state.street > 0) =>
         round_state.stacks[0] = round_state.stacks[1]
    /\ ShowdownReached =>
         produced.previous_state.stacks[0] = produced.previous_state.stacks[1]
    /\ TiedFullBoard =>
         /\ produced.deltas = Pair(0, 0)
         /\ (produced.previous_state.stacks[0] - produced.previous_state.stacks[1]) % 2 = 0
    /\ (StreetStart(round_state) /\ round_state.street = 0) =>
         round_state.stacks[0] - round_state.stacks[1] = BIG_BLIND - SMALL_BLIND

\* A river that was bet and called ended in a tied showdown with chips
\* left in both stacks.
C36_Witness ==
    /\ TiedFullBoard
    /\ validated = CallAction
    /\ produced.previous_state.street = 2
    /\ produced.previous_state.stacks[0] > 0
    /\ produced.deltas = Pair(0, 0)

\* C37: where a raise is legal, the minimum bound is above the opponent's
\* pip, and a raise to any amount within the bounds leaves the opponent
\* with a continue cost above 0, without CheckAction among their legal
\* actions, and the two stacks with a smaller total than before.
C37_RaiseCostsOpponent ==
    (IsRoundState(round_state) /\ "RaiseAction" \in legal_actions(round_state)) =>
        LET bounds == raise_bounds(round_state)
            active == Active(round_state)
        IN  /\ bounds[1] > round_state.pips[1 - active]
            /\ \A amount \in bounds[1]..bounds[2] :
                 LET next == proceed(round_state, RaiseAction(amount), board, deck).state
                 IN  /\ IsRoundState(next)
                     /\ Active(next) = 1 - active
                     /\ ContinueCost(next) > 0
                     /\ "CheckAction" \notin legal_actions(next)
                     /\ next.stacks[0] + next.stacks[1]
                          < round_state.stacks[0] + round_state.stacks[1]

\* A bet has been re-raised by the minimum: the first bettor cannot check
\* and the stacks hold fewer chips than before the re-raise.
C37_Witness ==
    /\ IsRoundState(before)
    /\ IsRoundState(produced)
    /\ validated.type = "RaiseAction"
    /\ ContinueCost(before) > 0
    /\ validated.amount = raise_bounds(before)[1]
    /\ ContinueCost(produced) > 0
    /\ "CheckAction" \notin legal_actions(produced)
    /\ produced.stacks[0] + produced.stacks[1] < before.stacks[0] + before.stacks[1]

\* C38: in every reachable RoundState legal_actions holds exactly one of
\* CheckAction and FoldAction: with a continue cost of 0 it holds Check and
\* neither Fold nor Call, with a continue cost above 0 it holds Fold and
\* Call and not Check; so the default, Check if legal and Fold otherwise,
\* is a legal action.
C38_CheckXorFold ==
    IsRoundState(round_state) =>
        LET legal == legal_actions(round_state)
        IN  /\ ("CheckAction" \in legal) # ("FoldAction" \in legal)
            /\ ContinueCost(round_state) >= 0
            /\ ContinueCost(round_state) = 0 =>
                 /\ "CheckAction" \in legal
                 /\ "FoldAction" \notin legal
                 /\ "CallAction" \notin legal
            /\ ContinueCost(round_state) > 0 =>
                 /\ "FoldAction" \in legal
                 /\ "CallAction" \in legal
                 /\ "CheckAction" \notin legal
            /\ DefaultAction(legal).type \in legal

\* A check was submitted against a bet, where it is not legal, and the
\* default, a fold, took its place.
C38_Witness ==
    /\ IsRoundState(before)
    /\ submitted = CheckAction
    /\ ContinueCost(before) > 0
    /\ legal_actions(before) = {"FoldAction", "CallAction", "RaiseAction"}
    /\ validated = FoldAction

\* The chips player i has put into the pot in the round that led to s.
Committed(s, i) == STARTING_STACK - s.stacks[i]

\* C39: the two deltas of every TerminalState have the same absolute value,
\* at most STARTING_STACK; after a fold, and after a showdown on the full
\* board with unequal scores, the winner's delta is the number of chips the
\* loser has put in during the round, and no more than the winner has put
\* in.
C39_WinnerGainsLoserChips ==
    (IsRoundState(before) /\ IsTerminalState(produced)) =>
        LET last == produced.previous_state
            score0 == ScoreOn(last, before_board, 0)
            score1 == ScoreOn(last, before_board, 1)
            decided == validated = FoldAction
                         \/ (Len(before_board) = 2 /\ score0 # score1)
            winner == IF validated = FoldAction THEN 1 - Active(before)
                      ELSE IF score0 > score1 THEN 0 ELSE 1
        IN  /\ produced.deltas[0] = 0 - produced.deltas[1]
            /\ produced.deltas[0] <= STARTING_STACK
            /\ produced.deltas[1] <= STARTING_STACK
            /\ decided =>
                 /\ produced.deltas[winner] = Committed(last, 1 - winner)
                 /\ produced.deltas[winner] <= Committed(last, winner)
                 /\ produced.deltas[winner] >= 0

\* A raise was answered by a fold: the raiser wins what the folder had
\* put in, less than the raiser's own chips in the pot.
C39_Witness ==
    /\ IsRoundState(before)
    /\ IsTerminalState(produced)
    /\ validated = FoldAction
    /\ produced.deltas[1 - Active(before)] = Committed(before, Active(before))
    /\ produced.deltas[1 - Active(before)] < Committed(before, 1 - Active(before))
    /\ produced.deltas[1 - Active(before)] > BIG_BLIND

\* The cards of the round in progress: the two hands, the shared board
\* list and the cards left in the deck.
HandCards(i) == CardSet(round_state.hands[i])

\* C34 as stated: throughout a round each hand holds 2 cards; the two
\* hands, the board and the undealt deck are pairwise disjoint and together
\* the 27 cards of the deck; the board holds at most 2 cards; and the deck
\* holds the cards the next deal or the equity enumeration will ask for.
C34_Original ==
    IsRoundState(round_state) =>
        /\ \A i \in Players : Len(round_state.hands[i]) = 2
        /\ \A i \in Players : Cardinality(HandCards(i)) = Len(round_state.hands[i])
        /\ HandCards(0) \cap HandCards(1) = {}
        /\ (HandCards(0) \cup HandCards(1)) \cap CardSet(board) = {}
        /\ (HandCards(0) \cup HandCards(1) \cup CardSet(board)) \cap CardSet(deck) = {}
        /\ Cardinality(CardSet(board)) = Len(board)
        /\ Cardinality(CardSet(deck)) = Len(deck)
        /\ HandCards(0) \cup HandCards(1) \cup CardSet(board) \cup CardSet(deck)
             = CardSet(ShortDeckCards)
        /\ Cardinality(CardSet(ShortDeckCards)) = 27
        /\ Len(board) <= 2
        /\ Len(deck) >= 2 - Len(board)

\* The values of the runs of three consecutive ranks among the cards h:
\* the rank-weighted value high_card_value gives the three cards r, r+1,
\* r+2.
RunValues(h) ==
    LET ranks == {Rank(h[i]) : i \in 1..Len(h)}
    IN  {r + 10 * (r + 1) + 100 * (r + 2) :
            r \in {x \in ranks : x + 1 \in ranks /\ x + 2 \in ranks}}

\* C33 as stated: when evaluate scores 4 cards in its 3-straight branch,
\* the score above the category offset is the rank-weighted value of three
\* cards of consecutive ranks, in the referee's evaluate and in the
\* skeleton's copy.
C33_Original ==
    (Evaluated /\ Len(combined) = 4) =>
        /\ category(combined) = "straight" => (score - 3000) \in RunValues(combined)
        /\ skeleton_category(combined) = "3-straight" =>
             (skeleton_score - 30000) \in RunValues(combined)

\* C40: after the same legal actions from the blinds, wherever the
\* referee's state is a RoundState the bot-side state is a RoundState with
\* the same button, street, pips and stacks, and so with the same legal
\* actions and the same raise bounds.
C40_BotStateAgrees ==
    IsRoundState(round_state) =>
        /\ IsRoundState(bot_state)
        /\ bot_state.button = round_state.button
        /\ bot_state.street = round_state.street
        /\ bot_state.pips = round_state.pips
        /\ bot_state.stacks = round_state.stacks
        /\ skeleton_legal_actions(bot_state) = legal_actions(round_state)
        /\ skeleton_raise_bounds(bot_state) = raise_bounds(round_state)

\* The river has been reached after a raise was called on the flop, and a
\* bet is to be answered: both sides hold the same position.
C40_Witness ==
    /\ IsRoundState(round_state)
    /\ round_state.street = 2
    /\ round_state.stacks[0] < STARTING_STACK - BIG_BLIND
    /\ ContinueCost(round_state) > 0
    /\ bot_state.street = 2
    /\ bot_state.pips = round_state.pips
    /\ skeleton_legal_actions(bot_state) = {"FoldAction", "CallAction", "RaiseAction"}

\* Something of a round has happened: a round was started, an action was
\* requested, proceed was called, end_round was called or a round was
\* counted.
RoundActivity ==
    \/ pc \in {"run_round", "TimeoutError", "match_over"}
    \/ round_state # None
    \/ request # None
    \/ notified # {}
    \/ nproceed > 0
    \/ round_num > 1
    \/ bankroll # Pair(0, 0)

\* C31: in a match run by the orchestrator nothing of a round happens
\* (no request_action, no end_round, no round) unless check_ready returned
\* True for both players, and once a check_ready has returned False the
\* match is aborted with no round played.
C31_ReadyGate ==
    driver = "Game" =>
        /\ RoundActivity => ready = Pair("True", "True")
        /\ pc = "run_match" => ready = Pair("True", "True")
        /\ (ready[0] = "False" \/ ready[1] = "False") => (pc = "aborted" /\ ~RoundActivity)

\* The first player reported ready, the second did not, and the match was
\* aborted.
C31_Witness ==
    /\ driver = "Game"
    /\ ready = Pair("True", "False")
    /\ pc = "aborted"

NotBy(i, entries) == SelectSeq(entries, LAMBDA e : e.player # i)

====
